---- MODULE Spec2Model ----
(***************************************************************************)
(* Model of the quote -> comparison pipeline of the WindowVisor dashboard: *)
(*   comparisonManager  (src/quote-uploader.js, lines 183-597)             *)
(*   window-calculator  (src/visualization-manager.js, lines 227-446)      *)
(*   quoteManager       (src/unnamed/part_000)                             *)
(* JavaScript numbers are modelled as exact rationals together with the    *)
(* two non-numbers the code can produce, undefined and NaN.  Strings are   *)
(* sequences of characters, so that case folding, substring search and     *)
(* pattern matching are something the model computes.                      *)
(***************************************************************************)
EXTENDS Integers, Sequences, FiniteSets, TLC

(***************************************************************************)
(* Bounds of the model.                                                    *)
(***************************************************************************)
\* longest item list of the quote whose items vary
MaxItems == 3
\* number of generateComparison calls
MaxCalls == 2
\* number of processQuote calls
MaxProcessCalls == 2
\* number of updateQuoteItem calls
MaxUpdateCalls == 1
\* number of lines of the texts parseQuoteText is called on
MaxLines == 2
\* number of pieces of the strings the mappers are called on
MaxWords == 3
\* items of the first quote when two generateComparison calls interleave
ParItems == 1

(***************************************************************************)
(* JavaScript values.                                                      *)
(***************************************************************************)
RECURSIVE Gcd(_, _)
Gcd(a, b) == IF b = 0 THEN a ELSE Gcd(b, a % b)

Abs(a) == IF a < 0 THEN -a ELSE a

\* the rational n/d in lowest terms, d > 0
Rat(n, d) ==
    LET g == Gcd(Abs(n), Abs(d))
        s == IF d < 0 THEN -1 ELSE 1
    IN  [t |-> "num", n |-> (s * n) \div g, d |-> (s * d) \div g]

Num(i) == [t |-> "num", n |-> i, d |-> 1]
Undefined == [t |-> "undefined", n |-> 0, d |-> 1]
NaN == [t |-> "NaN", n |-> 0, d |-> 1]
\* Infinity and -Infinity: n is the sign
Infinity == [t |-> "inf", n |-> 1, d |-> 1]
Inf(sign) == [t |-> "inf", n |-> sign, d |-> 1]

IsNum(x) == x.t = "num"
IsInf(x) == x.t = "inf"
\* finite or infinite, but not NaN and not undefined
IsNumeric(x) == IsNum(x) \/ IsInf(x)
Sign(x) == IF x.n > 0 THEN 1 ELSE IF x.n < 0 THEN -1 ELSE 0
Neg(x) == IF IsNumeric(x) THEN [x EXCEPT !.n = -x.n] ELSE x

\* x + y, x - y, x * y, x / y as IEEE arithmetic does them, finite results
\* being exact; undefined converts to NaN, NaN propagates
JsAdd(x, y) ==
    IF IsNum(x) /\ IsNum(y) THEN Rat(x.n * y.d + y.n * x.d, x.d * y.d)
    ELSE IF ~(IsNumeric(x) /\ IsNumeric(y)) THEN NaN
    ELSE IF IsInf(x) /\ IsInf(y) THEN (IF x.n = y.n THEN x ELSE NaN)
    ELSE IF IsInf(x) THEN x ELSE y

JsSub(x, y) == JsAdd(x, Neg(y))

JsMul(x, y) ==
    IF IsNum(x) /\ IsNum(y) THEN Rat(x.n * y.n, x.d * y.d)
    ELSE IF ~(IsNumeric(x) /\ IsNumeric(y)) THEN NaN
    ELSE IF Sign(x) = 0 \/ Sign(y) = 0 THEN NaN
    ELSE Inf(Sign(x) * Sign(y))

JsDiv(x, y) ==
    IF IsNum(x) /\ IsNum(y) /\ y.n # 0 THEN Rat(x.n * y.d, x.d * y.n)
    ELSE IF ~(IsNumeric(x) /\ IsNumeric(y)) THEN NaN
    ELSE IF IsInf(x) /\ IsInf(y) THEN NaN
    ELSE IF IsInf(y) THEN Num(0)
    ELSE IF IsInf(x) THEN Inf(IF Sign(y) < 0 THEN -x.n ELSE x.n)
    ELSE IF x.n = 0 THEN NaN
    ELSE Inf(Sign(x))

\* x > y, x < y: false as soon as one side is NaN or undefined
JsGt(x, y) ==
    /\ IsNumeric(x) /\ IsNumeric(y)
    /\ IF IsNum(x) /\ IsNum(y) THEN x.n * y.d > y.n * x.d
       ELSE IF IsInf(x) /\ IsInf(y) THEN x.n > y.n
       ELSE IF IsInf(x) THEN x.n > 0 ELSE y.n < 0
JsLt(x, y) == JsGt(y, x)

\* x === y: NaN is equal to nothing, itself included
JsEq(x, y) ==
    IF IsNumeric(x) /\ IsNumeric(y) THEN x = y ELSE x.t = "undefined" /\ y.t = "undefined"

\* isNaN(x): ToNumber(undefined) is NaN
JsIsNaN(x) == ~IsNumeric(x)

(***************************************************************************)
(* Strings.  A string is a sequence of characters: Len(s) is its length    *)
(* and SubSeq(s, i, j) the substring from position i to position j.        *)
(***************************************************************************)
\* a field that is absent from a record reads as undefined; this value
\* stands for it where a string is expected
UndefinedStr == "#undefined"

UpperAlpha == "ABCDEFGHIJKLMNOPQRSTUVWXYZ"
LowerAlpha == "abcdefghijklmnopqrstuvwxyz"

\* s.charAt(i - 1)
charAt(s, i) == SubSeq(s, i, i)

\* s.slice(i - 1)
slice(s, i) == SubSeq(s, i, Len(s))

LowerOf == [ch \in { charAt(UpperAlpha, i) : i \in 1..Len(UpperAlpha) } |->
              charAt(LowerAlpha, CHOOSE i \in 1..Len(UpperAlpha) : charAt(UpperAlpha, i) = ch)]
UpperOf == [ch \in { charAt(LowerAlpha, i) : i \in 1..Len(LowerAlpha) } |->
              charAt(UpperAlpha, CHOOSE i \in 1..Len(LowerAlpha) : charAt(LowerAlpha, i) = ch)]

\* one character in lower case, in upper case
Lower(ch) == IF ch \in DOMAIN LowerOf THEN LowerOf[ch] ELSE ch
Upper(ch) == IF ch \in DOMAIN UpperOf THEN UpperOf[ch] ELSE ch

RECURSIVE toLowerCase(_)
toLowerCase(s) == IF Len(s) = 0 THEN "" ELSE Lower(charAt(s, 1)) \o toLowerCase(slice(s, 2))

\* s.includes(pat)
includes(s, pat) ==
    \E i \in 1..(Len(s) - Len(pat) + 1) : SubSeq(s, i, i + Len(pat) - 1) = pat

\* /p1|p2|.../i.test(s), the alternatives being lower-case literals
testAny(s, pats) == \E p \in pats : includes(toLowerCase(s), p)

RECURSIVE join(_, _)
\* list.join(sep)
join(list, sep) ==
    IF Len(list) = 0 THEN ""
    ELSE IF Len(list) = 1 THEN list[1]
    ELSE list[1] \o sep \o join(Tail(list), sep)

\* obj[f], undefined when the object has no such property
Prop(obj, f) == IF f \in DOMAIN obj THEN obj[f] ELSE Undefined

(***************************************************************************)
(* AttributeMapper, OptionExtractor and the formatting helpers.            *)
(* Each mapper calls toLowerCase on its argument first, which raises a     *)
(* TypeError when the argument is undefined.                               *)
(***************************************************************************)
mapperRaises(s) == s = UndefinedStr

\* mapWindowType with the test for bay made before the one for casement
mapWindowTypeBayFirst(productName) ==
    LET name == toLowerCase(productName)
    IN  IF includes(name, "double-hung") \/ includes(name, "double hung") THEN "double-hung"
        ELSE IF includes(name, "bay") THEN "bay"
        ELSE IF includes(name, "casement") THEN "casement"
        ELSE IF includes(name, "awning") THEN "awning"
        ELSE IF includes(name, "slider") \/ includes(name, "sliding") THEN "slider"
        ELSE IF includes(name, "picture") \/ includes(name, "fixed") THEN "picture"
        ELSE IF includes(name, "bow") THEN "bow"
        ELSE IF includes(name, "garden") THEN "garden"
        ELSE "double-hung"

mapWindowType(productName) ==
    LET name == toLowerCase(productName)
    IN  IF includes(name, "double-hung") \/ includes(name, "double hung") THEN "double-hung"
        ELSE IF includes(name, "casement") THEN "casement"
        ELSE IF includes(name, "awning") THEN "awning"
        ELSE IF includes(name, "slider") \/ includes(name, "sliding") THEN "slider"
        ELSE IF includes(name, "picture") \/ includes(name, "fixed") THEN "picture"
        ELSE IF includes(name, "bay") THEN "bay"
        ELSE IF includes(name, "bow") THEN "bow"
        ELSE IF includes(name, "garden") THEN "garden"
        ELSE "double-hung"

\* mapMaterial returning the lower-cased input when no keyword is found
mapMaterialUnmapped(materialType) ==
    LET material == toLowerCase(materialType)
    IN  IF includes(material, "vinyl") THEN "vinyl"
        ELSE IF includes(material, "fiberglass") THEN "fiberglass"
        ELSE IF includes(material, "wood") THEN "wood"
        ELSE IF includes(material, "aluminum") THEN "aluminum"
        ELSE IF includes(material, "composite") THEN "composite"
        ELSE material

mapMaterial(materialType) ==
    LET material == toLowerCase(materialType)
    IN  IF includes(material, "vinyl") THEN "vinyl"
        ELSE IF includes(material, "fiberglass") THEN "fiberglass"
        ELSE IF includes(material, "wood") THEN "wood"
        ELSE IF includes(material, "aluminum") THEN "aluminum"
        ELSE IF includes(material, "composite") THEN "composite"
        ELSE "vinyl"

mapGlassType(description) ==
    LET desc == toLowerCase(description)
    IN  IF includes(desc, "triple") \/ includes(desc, "3-pane") \/ includes(desc, "3 pane")
          THEN "triple-pane"
        ELSE IF includes(desc, "single") \/ includes(desc, "1-pane") \/ includes(desc, "1 pane")
          THEN "single-pane"
        ELSE "double-pane"

\* the labels extractOptions pushes, in the order of its tests
\* optionLabels with the test for screens made first
optionLabelsScreensFirst(description) ==
    LET opt(pats, label) == IF testAny(description, pats) THEN <<label>> ELSE <<>>
    IN  opt({"screens"}, "Screens")
        \o opt({"low-e", "low e", "lowe"}, "Low-E Glass")
        \o opt({"argon", "gas filled"}, "Argon Gas")
        \o opt({"energy star", "energystar"}, "ENERGY STAR")
        \o opt({"tempered", "safety glass"}, "Tempered Glass")
        \o opt({"grids", "grilles", "muntins"}, "Grids")
        \o opt({"tilt", "washable"}, "Tilt Feature")

optionLabels(description) ==
    LET opt(pats, label) == IF testAny(description, pats) THEN <<label>> ELSE <<>>
    IN  opt({"low-e", "low e", "lowe"}, "Low-E Glass")
        \o opt({"argon", "gas filled"}, "Argon Gas")
        \o opt({"energy star", "energystar"}, "ENERGY STAR")
        \o opt({"tempered", "safety glass"}, "Tempered Glass")
        \o opt({"grids", "grilles", "muntins"}, "Grids")
        \o opt({"screens"}, "Screens")
        \o opt({"tilt", "washable"}, "Tilt Feature")

extractOptions(description) == join(optionLabels(description), ", ")

formatGlassType(glassType) ==
    CASE glassType = "single-pane" -> "Single Pane Glass"
      [] glassType = "double-pane" -> "Double Pane Glass"
      [] glassType = "triple-pane" -> "Triple Pane Glass"
      [] OTHER -> "Double Pane Glass"

formatOptions(options) ==
    join((IF options.material # ""
            THEN <<Upper(charAt(options.material, 1)) \o slice(options.material, 2) \o " Frame">>
            ELSE <<>>)
         \o (IF options.glassType # "" THEN <<formatGlassType(options.glassType)>> ELSE <<>>),
         ", ")

(***************************************************************************)
(* window-calculator: calculatePrice and its helpers.                      *)
(***************************************************************************)
MIN_WIDTH == 12
MAX_WIDTH == 120
MIN_HEIGHT == 12
MAX_HEIGHT == 120

\* validateMeasurements looking at the width only
validateMeasurementsWidthOnly(measurements) ==
    LET width == measurements.width
    IN  IF JsIsNaN(width) \/ JsLt(width, Num(MIN_WIDTH)) \/ JsGt(width, Num(MAX_WIDTH))
          THEN FALSE
        ELSE TRUE

validateMeasurements(measurements) ==
    LET width == measurements.width
        height == measurements.height
    IN  IF JsIsNaN(width) \/ JsLt(width, Num(MIN_WIDTH)) \/ JsGt(width, Num(MAX_WIDTH))
          THEN FALSE
        ELSE IF JsIsNaN(height) \/ JsLt(height, Num(MIN_HEIGHT)) \/ JsGt(height, Num(MAX_HEIGHT))
          THEN FALSE
        ELSE TRUE

\* the request calculatePrice posts (quantity || 1, option || default)
requestData(measurements, options) ==
    [action |-> "calculatePrice",
     measurements |-> [width |-> measurements.width,
                       height |-> measurements.height,
                       quantity |-> IF IsNumeric(measurements.quantity) /\ measurements.quantity.n # 0
                                    THEN measurements.quantity ELSE Num(1)],
     options |-> [windowType |-> IF options.windowType # "" THEN options.windowType
                                 ELSE "double-hung",
                  material |-> IF options.material # "" THEN options.material ELSE "vinyl",
                  glassType |-> IF options.glassType # "" THEN options.glassType
                                ELSE "double-pane"]]

\* What the network can answer to one POST of the request: a JSON body of
\* the price sheet, a 401, another error status, or a failed fetch.
NetOutcomes(data) ==
    { [kind |-> "json", status |-> 200,
       body |-> [success |-> TRUE,
                 basePrice |-> Num(300),
                 optionsPrice |-> Num(50),
                 pricePerWindow |-> Num(350),
                 totalPrice |-> JsMul(Num(350), data.measurements.quantity)]],
      [kind |-> "status", status |-> 401, body |-> [success |-> FALSE]],
      [kind |-> "throw", status |-> 0, body |-> [success |-> FALSE]] }

\* the other answers: a body that reports a failure, with or without an
\* error text (no text: ""), and an error status other than 401
OtherNetOutcomes ==
    { [kind |-> "json", status |-> 200, body |-> [success |-> FALSE, error |-> "Sheet not found"]],
      [kind |-> "json", status |-> 200, body |-> [success |-> FALSE, error |-> ""]],
      [kind |-> "status", status |-> 500, body |-> [success |-> FALSE]] }

\* callGoogleSheetsAPI(data), given the network's answer; it never raises
callGoogleSheetsAPI(data, net) ==
    IF net.kind = "throw" THEN [success |-> FALSE, error |-> "fetch failed"]
    ELSE IF net.status = 401
      THEN [success |-> FALSE, error |-> "Authentication required. Please log in again."]
    ELSE IF net.kind = "status"
      THEN [success |-> FALSE, error |-> "API call failed with status"]
    ELSE net.body

\* the state object before anything is known
NoResults ==
    [set |-> FALSE, basePrice |-> Undefined, optionsPrice |-> Undefined,
     totalPrice |-> Undefined, pricePerWindow |-> Undefined]

\* calculatePrice(measurements, options): the state object it returns.
\* Every failure is caught and recorded in state.error (set = a non-null
\* value); nothing is raised.
calculatePrice(measurements, options, net) ==
    IF ~validateMeasurements(measurements)
      THEN [calculating |-> FALSE, results |-> NoResults,
            error |-> "Invalid measurements. Please check width and height values."]
    ELSE
      LET response == callGoogleSheetsAPI(requestData(measurements, options), net)
      IN  IF response.success
            THEN [calculating |-> FALSE,
                  results |-> [set |-> TRUE,
                               basePrice |-> response.basePrice,
                               optionsPrice |-> response.optionsPrice,
                               totalPrice |-> response.totalPrice,
                               pricePerWindow |-> response.pricePerWindow],
                  error |-> ""]
          ELSE [calculating |-> FALSE, results |-> NoResults,
                error |-> IF response.error # "" THEN response.error
                          ELSE "Failed to calculate price. Please try again."]

(***************************************************************************)
(* comparisonManager: pricing one quote item.                              *)
(***************************************************************************)
DefaultOptions == [windowType |-> "double-hung", material |-> "vinyl", glassType |-> "double-pane"]
NoOptions == [windowType |-> "", material |-> "", glassType |-> ""]
NoCalculation == [calculating |-> TRUE, results |-> NoResults, error |-> ""]

\* matchProduct returned undefined
NoProduct ==
    [defined |-> FALSE, productId |-> 0, productName |-> UndefinedStr,
     materialType |-> UndefinedStr, basePrice |-> Undefined, confidence |-> Undefined]

\* calculateWarnkePrice with a fallback that forgets the quantity and keeps
\* the default window type only
calculateWarnkePriceUnitFallback(quoteItem, matchedProduct, net) ==
    IF ~matchedProduct.defined
      THEN [path |-> "raised", totalPrice |-> Undefined, pricePerWindow |-> Undefined,
            basePrice |-> Undefined, optionsPrice |-> Undefined, options |-> NoOptions,
            calculation |-> NoCalculation]
    ELSE IF mapperRaises(matchedProduct.productName) \/ mapperRaises(matchedProduct.materialType)
            \/ mapperRaises(quoteItem.description)
      THEN [path |-> "fallback",
            totalPrice |-> matchedProduct.basePrice,
            pricePerWindow |-> matchedProduct.basePrice,
            basePrice |-> matchedProduct.basePrice,
            optionsPrice |-> Num(0),
            options |-> DefaultOptions,
            calculation |-> NoCalculation]
    ELSE
      LET measurements == [width |-> quoteItem.widthInches,
                           height |-> quoteItem.heightInches,
                           quantity |-> quoteItem.quantity]
          options == [windowType |-> mapWindowType(matchedProduct.productName),
                      material |-> mapMaterial(matchedProduct.materialType),
                      glassType |-> mapGlassType(quoteItem.description)]
          calculation == calculatePrice(measurements, options, net)
      IN  [path |-> "adapter",
           totalPrice |-> Prop(calculation, "totalPrice"),
           pricePerWindow |-> Prop(calculation, "pricePerWindow"),
           basePrice |-> Prop(calculation, "basePrice"),
           optionsPrice |-> Prop(calculation, "optionsPrice"),
           options |-> options,
           calculation |-> calculation]

\* calculateWarnkePrice(quoteItem, matchedProduct), given the network's
\* answer to the adapter.  path tells which return statement produced the
\* result: "adapter" (line 353), "fallback" (line 364), or "raised" when the
\* catch block itself raised (matchedProduct is undefined).
calculateWarnkePrice(quoteItem, matchedProduct, net) ==
    IF ~matchedProduct.defined
      THEN [path |-> "raised", totalPrice |-> Undefined, pricePerWindow |-> Undefined,
            basePrice |-> Undefined, optionsPrice |-> Undefined, options |-> NoOptions,
            calculation |-> NoCalculation]
    ELSE IF mapperRaises(matchedProduct.productName) \/ mapperRaises(matchedProduct.materialType)
            \/ mapperRaises(quoteItem.description)
      THEN [path |-> "fallback",
            totalPrice |-> JsMul(quoteItem.quantity, matchedProduct.basePrice),
            pricePerWindow |-> matchedProduct.basePrice,
            basePrice |-> matchedProduct.basePrice,
            optionsPrice |-> Num(0),
            options |-> DefaultOptions,
            calculation |-> NoCalculation]
    ELSE
      LET measurements == [width |-> quoteItem.widthInches,
                           height |-> quoteItem.heightInches,
                           quantity |-> quoteItem.quantity]
          options == [windowType |-> mapWindowType(matchedProduct.productName),
                      material |-> mapMaterial(matchedProduct.materialType),
                      glassType |-> mapGlassType(quoteItem.description)]
          calculation == calculatePrice(measurements, options, net)
      IN  [path |-> "adapter",
           totalPrice |-> Prop(calculation, "totalPrice"),
           pricePerWindow |-> Prop(calculation, "pricePerWindow"),
           basePrice |-> Prop(calculation, "basePrice"),
           optionsPrice |-> Prop(calculation, "optionsPrice"),
           options |-> options,
           calculation |-> calculation]

(***************************************************************************)
(* The document store and the calls in progress.                           *)
(***************************************************************************)
VARIABLES
    quotes,           \* CompetitorQuotes: quoteId -> record
    quoteItems,       \* QuoteItems, in creation order
    comparisons,      \* Comparisons, in creation order
    comparisonItems,  \* ComparisonItems, in creation order
    nextId,           \* generateId(): the next fresh identifier
    gc,               \* generateComparison calls: call -> locals
    pq,               \* processQuote calls: call -> locals
    uq,               \* updateQuoteItem calls: call -> locals
    helper,           \* a direct call of a helper function: its argument and result
    vq,               \* the verifyQuote call: its locals
    us                \* the updateComparisonStatus call: its locals

vars == <<quotes, quoteItems, comparisons, comparisonItems, nextId, gc, pq, uq, helper, vq, us>>

Calls == 1..MaxCalls
ProcessCalls == 1..MaxProcessCalls
UpdateCalls == 1..MaxUpdateCalls

\* quote ids a caller may pass; MissingQuote is in no collection
QuoteIds == {1, 2}
MissingQuote == Cardinality(QuoteIds) + 1

\* repeated generateComparison calls are explored for quotes of at most
\* this many items
RepeatItems == 0

(***************************************************************************)
(* WarnkeProducts: the catalog getProducts returns.  The second product    *)
(* has no materialType field.                                              *)
(***************************************************************************)
Catalog ==
    << [defined |-> TRUE, productId |-> 1,
        productName |-> "Casement Window",
        materialType |-> "Wood",
        basePrice |-> Num(250), confidence |-> Num(1)],
       [defined |-> TRUE, productId |-> 2,
        productName |-> "Awning Window",
        materialType |-> UndefinedStr,
        basePrice |-> Num(300), confidence |-> Num(1)] >>

\* What matchProduct(quoteItem, products) can do: return a product of the
\* catalog, return undefined (no candidate), or raise.
MatchOutcomes(quoteItem, products) ==
    { [raised |-> FALSE, product |-> products[i]] : i \in DOMAIN products }
    \cup { [raised |-> FALSE, product |-> NoProduct], [raised |-> TRUE, product |-> NoProduct] }

(***************************************************************************)
(* Quote items as parseQuoteText and createQuoteItems leave them.          *)
(***************************************************************************)
ItemKinds ==
    { [quantity |-> Num(2), widthInches |-> Num(36), heightInches |-> Num(60),
       description |-> "Casement Triple Low-E",
       unitPrice |-> Num(450), totalPrice |-> Num(900)],
      [quantity |-> Num(1), widthInches |-> Num(10), heightInches |-> Num(60),
       description |-> "Argon screens",
       unitPrice |-> Num(0), totalPrice |-> Num(0)] }

QuoteItem(kind, itemId, quoteId) ==
    [itemId |-> itemId, quoteId |-> quoteId, quantity |-> kind.quantity,
     widthInches |-> kind.widthInches, heightInches |-> kind.heightInches,
     description |-> kind.description, unitPrice |-> kind.unitPrice,
     totalPrice |-> kind.totalPrice, confidenceScore |-> Rat(8, 10)]

SeqsUpTo(S, n) == UNION { [1..k -> S] : k \in 0..n }

Quote(quoteId, totalAmount, itemsCount, status) ==
    [quoteId |-> quoteId, competitorName |-> "pella", extractionStatus |-> status,
     quoteNumber |-> "", quoteDate |-> "null", totalAmount |-> totalAmount,
     itemsCount |-> itemsCount]

(***************************************************************************)
(* Locals of one generateComparison call.  Absent values are empty         *)
(* sequences.  trace is the history of the per-item attempts and failed    *)
(* names the step whose error made the call raise.                         *)
(***************************************************************************)
GcIdle ==
    [pc |-> "idle", quoteId |-> 0, pending |-> {}, quote |-> <<>>, quoteItems |-> <<>>,
     products |-> <<>>, comparison |-> <<>>, idx |-> 1, current |-> <<>>,
     comparisonItems |-> <<>>, trace |-> <<>>, failed |-> "", result |-> <<>>]

GcDone(c) == gc[c].pc \in {"returned", "raised"}
GcActive(c) == gc[c].pc \notin {"idle", "returned", "raised"}

\* the quote's items, as query.find() returns them
getQuoteItems(quoteId) == SelectSeq(quoteItems, LAMBDA it : it.quoteId = quoteId)

\* Locals of one processQuote call.  setProcessing and wroteError record
\* whether the two status writes of lines 85 and 120 succeeded, failed
\* names the step whose error entered the catch block, and before is the
\* store as the call found it: the quote and the number of quote items.
PqIdle ==
    [pc |-> "idle", quoteId |-> 0, quote |-> <<>>, parsedData |-> <<>>, idx |-> 1,
     createdItems |-> <<>>, setProcessing |-> FALSE, wroteError |-> FALSE, failed |-> "",
     before |-> <<>>]

PqDone(c) == pq[c].pc \in {"returned", "raised"}

\* Locals of one updateQuoteItem call, those of its updateQuoteTotalAmount
\* included.  totalFailed tells that updateQuoteTotalAmount caught an error.
UqIdle ==
    [pc |-> "idle", itemId |-> 0, field |-> "", value |-> Undefined, item |-> <<>>,
     updatedItem |-> <<>>, items |-> <<>>, quote |-> <<>>, totalFailed |-> FALSE]

UqDone(c) == uq[c].pc \in {"returned", "raised"}

\* Locals of the verifyQuote call
VqIdle == [pc |-> "idle", quoteId |-> 0, quote |-> <<>>]

\* Locals of the updateComparisonStatus call
UsIdle == [pc |-> "idle", comparisonId |-> 0, status |-> "", comparison |-> <<>>]

\* no helper function has been called directly
NoHelperCall == [fn |-> "", arg |-> "", ret |-> <<>>, raised |-> FALSE]

Init ==
    /\ \E its \in SeqsUpTo(ItemKinds, MaxItems) :
         /\ quotes = [q \in QuoteIds |->
                        IF q = 1 THEN Quote(1, Num(1400), Len(its), "processed")
                        ELSE Quote(2, Num(0), 1, "processed")]
         /\ quoteItems = [i \in DOMAIN its |-> QuoteItem(its[i], i, 1)]
                         \o << QuoteItem(CHOOSE k \in ItemKinds : k.totalPrice = Num(900), 10, 2) >>
    /\ comparisons = <<>>
    /\ comparisonItems = <<>>
    /\ nextId = 100
    /\ gc = [c \in Calls |-> GcIdle]
    /\ pq = [c \in ProcessCalls |-> PqIdle]
    /\ uq = [c \in UpdateCalls |-> UqIdle]
    /\ vq = VqIdle
    /\ us = UsIdle
    /\ helper = NoHelperCall

(***************************************************************************)
(* generateComparison(quoteId, projectId)                                  *)
(***************************************************************************)
\* the call starts and issues its three reads (Promise.all)
GenerateComparison(c, quoteId) ==
    /\ gc[c].pc = "idle"
    /\ \A d \in Calls : d < c => GcDone(d)
    /\ c > 1 => Len(getQuoteItems(1)) <= RepeatItems
    /\ gc' = [gc EXCEPT ![c] = [GcIdle EXCEPT !.pc = "reads", !.quoteId = quoteId,
                                              !.pending = {"quote", "items", "products"}]]
    /\ UNCHANGED <<quotes, quoteItems, comparisons, comparisonItems, nextId, pq, uq, helper, vq, us>>

\* after a read: the next step of the call
AfterRead(l) ==
    IF l.pending = {} THEN [l EXCEPT !.pc = "create"] ELSE l

\* getQuoteDetails(quoteId) settles: the quote, or an error when the quote
\* does not exist or the store fails
GetQuoteDetails(c, ok) ==
    /\ gc[c].pc = "reads"
    /\ "quote" \in gc[c].pending
    /\ IF ok /\ gc[c].quoteId \in DOMAIN quotes
         THEN gc' = [gc EXCEPT ![c] = AfterRead([@ EXCEPT !.pending = @ \ {"quote"},
                                                        !.quote = <<quotes[gc[c].quoteId]>>])]
         ELSE gc' = [gc EXCEPT ![c].pc = "raised", ![c].pending = {}, ![c].failed = "quote"]
    /\ UNCHANGED <<quotes, quoteItems, comparisons, comparisonItems, nextId, pq, uq, helper, vq, us>>

\* getQuoteItems whose failure is swallowed: the call goes on with no items
GetQuoteItemsSwallowed(c, ok) ==
    /\ gc[c].pc = "reads"
    /\ "items" \in gc[c].pending
    /\ gc' = [gc EXCEPT ![c] = AfterRead([@ EXCEPT !.pending = @ \ {"items"},
                                                  !.failed = IF ok THEN "" ELSE "items",
                                                  !.quoteItems = IF ok THEN getQuoteItems(gc[c].quoteId)
                                                                 ELSE <<>>])]
    /\ UNCHANGED <<quotes, quoteItems, comparisons, comparisonItems, nextId, pq, uq, helper, vq, us>>

\* getQuoteItems(quoteId) settles
GetQuoteItems(c, ok) ==
    /\ gc[c].pc = "reads"
    /\ "items" \in gc[c].pending
    /\ IF ok
         THEN gc' = [gc EXCEPT ![c] = AfterRead([@ EXCEPT !.pending = @ \ {"items"},
                                                        !.quoteItems = getQuoteItems(gc[c].quoteId)])]
         ELSE gc' = [gc EXCEPT ![c].pc = "raised", ![c].pending = {}, ![c].failed = "items"]
    /\ UNCHANGED <<quotes, quoteItems, comparisons, comparisonItems, nextId, pq, uq, helper, vq, us>>

\* getProducts() settles
GetProducts(c, ok) ==
    /\ gc[c].pc = "reads"
    /\ "products" \in gc[c].pending
    /\ IF ok
         THEN gc' = [gc EXCEPT ![c] = AfterRead([@ EXCEPT !.pending = @ \ {"products"},
                                                        !.products = Catalog])]
         ELSE gc' = [gc EXCEPT ![c].pc = "raised", ![c].pending = {}, ![c].failed = "products"]
    /\ UNCHANGED <<quotes, quoteItems, comparisons, comparisonItems, nextId, pq, uq, helper, vq, us>>

\* where the item loop goes after position idx
LoopFrom(l, idx) ==
    IF idx > Len(l.quoteItems)
      THEN [l EXCEPT !.pc = "update", !.idx = idx, !.current = <<>>]
      ELSE [l EXCEPT !.pc = "item", !.idx = idx, !.current = <<>>]

\* createDocument(Comparisons, comparisonData) with provisional totals
CreateComparison(c, ok) ==
    /\ gc[c].pc = "create"
    /\ IF ok
         THEN LET quote == gc[c].quote[1]
                  comparison == [comparisonId |-> nextId,
                                 quoteId |-> gc[c].quoteId,
                                 competitorName |-> quote.competitorName,
                                 totalCompetitorPrice |-> quote.totalAmount,
                                 totalWarnkePrice |-> Num(0),
                                 savingsAmount |-> Num(0),
                                 savingsPercentage |-> Num(0),
                                 status |-> "generated"]
              IN  /\ comparisons' = Append(comparisons, comparison)
                  /\ nextId' = nextId + 1
                  /\ gc' = [gc EXCEPT ![c] = LoopFrom([@ EXCEPT !.comparison = <<comparison>>], 1)]
         ELSE /\ gc' = [gc EXCEPT ![c].pc = "raised", ![c].failed = "create"]
              /\ UNCHANGED <<comparisons, nextId>>
    /\ UNCHANGED <<quotes, quoteItems, comparisonItems, pq, uq, helper, vq, us>>

\* one entry of a call's trace
Attempt(itemId, outcome, price, product, createdId) ==
    [itemId |-> itemId, outcome |-> outcome, path |-> price.path,
     calculation |-> price.calculation, options |-> price.options,
     basePrice |-> product.basePrice, comparisonItemId |-> createdId]

NoPrice ==
    [path |-> "none", totalPrice |-> Undefined, pricePerWindow |-> Undefined,
     basePrice |-> Undefined, optionsPrice |-> Undefined, options |-> NoOptions,
     calculation |-> NoCalculation]

\* the record generateComparisonItems builds for one quote item
ComparisonItem(comparisonId, quoteItem, matchedProduct, priceCalculation) ==
    [comparisonId |-> comparisonId,
     quoteItemId |-> quoteItem.itemId,
     competitorProductDescription |-> quoteItem.description,
     competitorOptions |-> extractOptions(quoteItem.description),
     competitorPrice |-> quoteItem.totalPrice,
     warnkeProductId |-> matchedProduct.productId,
     warnkeProductName |-> matchedProduct.productName,
     warnkeOptions |-> formatOptions(priceCalculation.options),
     warnkePrice |-> priceCalculation.totalPrice,
     width |-> quoteItem.widthInches,
     height |-> quoteItem.heightInches,
     quantity |-> quoteItem.quantity,
     savingsAmount |-> JsSub(quoteItem.totalPrice, priceCalculation.totalPrice),
     savingsPercentage |->
         IF JsGt(quoteItem.totalPrice, Num(0))
           THEN JsMul(JsDiv(JsSub(quoteItem.totalPrice, priceCalculation.totalPrice),
                            quoteItem.totalPrice), Num(100))
           ELSE Num(0),
     matchConfidence |-> matchedProduct.confidence,
     comparisonItemId |-> 0]

\* the item step without the loop body's try/catch: a raise ends the loop
MatchAndPriceAborting(c, m, net) ==
    /\ gc[c].pc = "item"
    /\ LET l == gc[c]
           quoteItem == l.quoteItems[l.idx]
           priceCalculation == calculateWarnkePrice(quoteItem, m.product, net)
       IN  IF m.raised \/ priceCalculation.path = "raised"
             THEN gc' = [gc EXCEPT ![c] =
                          [l EXCEPT !.pc = "update", !.current = <<>>,
                                    !.trace = Append(@, Attempt(quoteItem.itemId, "matchRaised",
                                                                NoPrice, NoProduct, 0))]]
           ELSE gc' = [gc EXCEPT ![c].pc = "persist",
                                 ![c].current =
                                    << [item |-> ComparisonItem(l.comparison[1].comparisonId,
                                                                quoteItem, m.product,
                                                                priceCalculation),
                                        price |-> priceCalculation,
                                        product |-> m.product] >>]
    /\ UNCHANGED <<quotes, quoteItems, comparisons, comparisonItems, nextId, pq, uq, helper, vq, us>>

\* generateComparisonItems, one quote item: matchProduct, then
\* calculateWarnkePrice up to the point where the item is ready to persist.
\* A raise in either is caught by the loop body and the loop goes on.
MatchAndPrice(c, m, net) ==
    /\ gc[c].pc = "item"
    /\ LET l == gc[c]
           quoteItem == l.quoteItems[l.idx]
           priceCalculation == calculateWarnkePrice(quoteItem, m.product, net)
       IN  IF m.raised
             THEN gc' = [gc EXCEPT ![c] =
                          LoopFrom([l EXCEPT !.trace = Append(@,
                              Attempt(quoteItem.itemId, "matchRaised", NoPrice, NoProduct, 0))],
                            l.idx + 1)]
           ELSE IF priceCalculation.path = "raised"
             THEN gc' = [gc EXCEPT ![c] =
                          LoopFrom([l EXCEPT !.trace = Append(@,
                              Attempt(quoteItem.itemId, "priceRaised", NoPrice, NoProduct, 0))],
                            l.idx + 1)]
           ELSE gc' = [gc EXCEPT ![c].pc = "persist",
                                 ![c].current =
                                    << [item |-> ComparisonItem(l.comparison[1].comparisonId,
                                                                quoteItem, m.product,
                                                                priceCalculation),
                                        price |-> priceCalculation,
                                        product |-> m.product] >>]
    /\ UNCHANGED <<quotes, quoteItems, comparisons, comparisonItems, nextId, pq, uq, helper, vq, us>>

\* the persist step with unshift in place of push
PersistItemUnshift(c, ok) ==
    /\ gc[c].pc = "persist"
    /\ LET l == gc[c]
           cur == l.current[1]
           createdItem == [cur.item EXCEPT !.comparisonItemId = nextId]
       IN  IF ok
             THEN /\ comparisonItems' = Append(comparisonItems, createdItem)
                  /\ nextId' = nextId + 1
                  /\ gc' = [gc EXCEPT ![c] =
                             LoopFrom([l EXCEPT !.comparisonItems = <<createdItem>> \o @,
                                                !.trace = Append(@,
                                                   Attempt(cur.item.quoteItemId, "created",
                                                           cur.price, cur.product, nextId))],
                                      l.idx + 1)]
             ELSE /\ gc' = [gc EXCEPT ![c] =
                             LoopFrom([l EXCEPT !.trace = Append(@,
                                          Attempt(cur.item.quoteItemId, "persistFailed",
                                                  NoPrice, NoProduct, 0))],
                                      l.idx + 1)]
                  /\ UNCHANGED <<comparisonItems, nextId>>
    /\ UNCHANGED <<quotes, quoteItems, comparisons, pq, uq, helper, vq, us>>

\* createDocument(ComparisonItems, comparisonItem) settles; a failure is
\* caught by the loop body and the loop goes on
PersistItem(c, ok) ==
    /\ gc[c].pc = "persist"
    /\ LET l == gc[c]
           cur == l.current[1]
           createdItem == [cur.item EXCEPT !.comparisonItemId = nextId]
       IN  IF ok
             THEN /\ comparisonItems' = Append(comparisonItems, createdItem)
                  /\ nextId' = nextId + 1
                  /\ gc' = [gc EXCEPT ![c] =
                             LoopFrom([l EXCEPT !.comparisonItems = Append(@, createdItem),
                                                !.trace = Append(@,
                                                   Attempt(cur.item.quoteItemId, "created",
                                                           cur.price, cur.product, nextId))],
                                      l.idx + 1)]
             ELSE /\ gc' = [gc EXCEPT ![c] =
                             LoopFrom([l EXCEPT !.trace = Append(@,
                                          Attempt(cur.item.quoteItemId, "persistFailed",
                                                  NoPrice, NoProduct, 0))],
                                      l.idx + 1)]
                  /\ UNCHANGED <<comparisonItems, nextId>>
    /\ UNCHANGED <<quotes, quoteItems, comparisons, pq, uq, helper, vq, us>>

RECURSIVE SumWarnkePrice(_)
\* comparisonItems.reduce((total, item) => total + item.warnkePrice, 0)
SumWarnkePrice(items) ==
    IF Len(items) = 0 THEN Num(0)
    ELSE JsAdd(SumWarnkePrice(SubSeq(items, 1, Len(items) - 1)), items[Len(items)].warnkePrice)

\* the totals of lines 242-244
Totals(quote, items) ==
    LET totalWarnkePrice == SumWarnkePrice(items)
        savingsAmount == JsSub(quote.totalAmount, totalWarnkePrice)
    IN  [totalWarnkePrice |-> totalWarnkePrice,
         savingsAmount |-> savingsAmount,
         savingsPercentage |-> IF JsGt(quote.totalAmount, Num(0))
                                 THEN JsMul(JsDiv(savingsAmount, quote.totalAmount), Num(100))
                                 ELSE Num(0)]

\* updateDocument replacing every record of the collection
updateDocumentAll(rows, record, key) ==
    [i \in DOMAIN rows |-> record]

\* updateDocument(collection, record): the stored record with the same id
\* is replaced as a whole
updateDocument(rows, record, key) ==
    [i \in DOMAIN rows |-> IF rows[i][key] = record[key] THEN record ELSE rows[i]]

RECURSIVE SumCompetitorPrice(_)
SumCompetitorPrice(items) ==
    IF Len(items) = 0 THEN Num(0)
    ELSE JsAdd(SumCompetitorPrice(SubSeq(items, 1, Len(items) - 1)),
               items[Len(items)].competitorPrice)

\* the final update writing the sum of the items' competitor prices as
\* totalCompetitorPrice
UpdateComparisonSumsCompetitor(c, ok) ==
    /\ gc[c].pc = "update"
    /\ LET l == gc[c]
           t == Totals(l.quote[1], l.comparisonItems)
           updatedComparison == [l.comparison[1] EXCEPT
                                   !.totalCompetitorPrice = SumCompetitorPrice(l.comparisonItems),
                                   !.totalWarnkePrice = t.totalWarnkePrice,
                                   !.savingsAmount = t.savingsAmount,
                                   !.savingsPercentage = t.savingsPercentage]
       IN  IF ok
             THEN /\ comparisons' = updateDocument(comparisons, updatedComparison, "comparisonId")
                  /\ gc' = [gc EXCEPT ![c].pc = "returned",
                                      ![c].result = << [comparison |-> updatedComparison,
                                                        items |-> l.comparisonItems] >>]
             ELSE /\ gc' = [gc EXCEPT ![c].pc = "raised", ![c].failed = "update"]
                  /\ UNCHANGED comparisons
    /\ UNCHANGED <<quotes, quoteItems, comparisonItems, nextId, pq, uq, helper, vq, us>>

\* the totals are computed and the Comparison row is updated; the call
\* returns {comparison, items}, or raises when the update fails
UpdateComparison(c, ok) ==
    /\ gc[c].pc = "update"
    /\ LET l == gc[c]
           t == Totals(l.quote[1], l.comparisonItems)
           updatedComparison == [l.comparison[1] EXCEPT
                                   !.totalWarnkePrice = t.totalWarnkePrice,
                                   !.savingsAmount = t.savingsAmount,
                                   !.savingsPercentage = t.savingsPercentage]
       IN  IF ok
             THEN /\ comparisons' = updateDocument(comparisons, updatedComparison, "comparisonId")
                  /\ gc' = [gc EXCEPT ![c].pc = "returned",
                                      ![c].result = << [comparison |-> updatedComparison,
                                                        items |-> l.comparisonItems] >>]
             ELSE /\ gc' = [gc EXCEPT ![c].pc = "raised", ![c].failed = "update"]
                  /\ UNCHANGED comparisons
    /\ UNCHANGED <<quotes, quoteItems, comparisonItems, nextId, pq, uq, helper, vq, us>>

\* the network answers a price request can get for the item in hand
ItemNetOutcomes(c) ==
    LET quoteItem == gc[c].quoteItems[gc[c].idx]
    IN  NetOutcomes(requestData([width |-> quoteItem.widthInches,
                                 height |-> quoteItem.heightInches,
                                 quantity |-> quoteItem.quantity], DefaultOptions))

Next ==
    \/ \E c \in Calls, q \in QuoteIds \cup {MissingQuote} : GenerateComparison(c, q)
    \/ \E c \in Calls, ok \in BOOLEAN : GetQuoteDetails(c, ok)
    \/ \E c \in Calls, ok \in BOOLEAN : GetQuoteItems(c, ok)
    \/ \E c \in Calls, ok \in BOOLEAN : GetProducts(c, ok)
    \/ \E c \in Calls, ok \in BOOLEAN : CreateComparison(c, ok)
    \/ \E c \in Calls : gc[c].pc = "item" /\
          \E m \in MatchOutcomes(gc[c].quoteItems[gc[c].idx], gc[c].products),
             net \in ItemNetOutcomes(c) : MatchAndPrice(c, m, net)
    \/ \E c \in Calls, ok \in BOOLEAN : PersistItem(c, ok)
    \/ \E c \in Calls, ok \in BOOLEAN : UpdateComparison(c, ok)

Spec == Init /\ [][Next]_vars

(***************************************************************************)
(* generateComparison called once for each quote, the calls interleaving   *)
(* at every await: nothing in the module orders two calls.                 *)
(***************************************************************************)
InitPar ==
    /\ Init
    /\ Len(getQuoteItems(1)) = ParItems

\* the call for quote c starts, whatever the other call is doing
GenerateComparisonOwnQuote(c) ==
    /\ c \in QuoteIds
    /\ gc[c].pc = "idle"
    /\ gc' = [gc EXCEPT ![c] = [GcIdle EXCEPT !.pc = "reads", !.quoteId = c,
                                              !.pending = {"quote", "items", "products"}]]
    /\ UNCHANGED <<quotes, quoteItems, comparisons, comparisonItems, nextId, pq, uq, helper, vq, us>>

NextPar ==
    \/ \E c \in Calls : GenerateComparisonOwnQuote(c)
    \/ \E c \in Calls, ok \in BOOLEAN : GetQuoteDetails(c, ok)
    \/ \E c \in Calls, ok \in BOOLEAN : GetQuoteItems(c, ok)
    \/ \E c \in Calls, ok \in BOOLEAN : GetProducts(c, ok)
    \/ \E c \in Calls, ok \in BOOLEAN : CreateComparison(c, ok)
    \/ \E c \in Calls : gc[c].pc = "item" /\
          \E m \in MatchOutcomes(gc[c].quoteItems[gc[c].idx], gc[c].products),
             net \in ItemNetOutcomes(c) : MatchAndPrice(c, m, net)
    \/ \E c \in Calls, ok \in BOOLEAN : PersistItem(c, ok)
    \/ \E c \in Calls, ok \in BOOLEAN : UpdateComparison(c, ok)

SpecPar == InitPar /\ [][NextPar]_vars

(***************************************************************************)
(* updateComparisonStatus(comparisonId, status), called for a stored       *)
(* Comparison while generateComparison calls run.                          *)
(***************************************************************************)
UpdateComparisonStatus(comparisonId, status) ==
    /\ us.pc = "idle"
    /\ us' = [UsIdle EXCEPT !.pc = "get", !.comparisonId = comparisonId, !.status = status]
    /\ UNCHANGED <<quotes, quoteItems, comparisons, comparisonItems, nextId, gc, pq, uq, helper, vq>>

\* getDocument(Comparisons, comparisonId) settles; no row or a store error
\* raise
UsGetDocument(ok) ==
    /\ us.pc = "get"
    /\ LET found == SelectSeq(comparisons, LAMBDA r : r.comparisonId = us.comparisonId)
       IN  IF ok /\ found # <<>>
             THEN us' = [us EXCEPT !.pc = "update", !.comparison = <<found[1]>>]
             ELSE us' = [us EXCEPT !.pc = "raised"]
    /\ UNCHANGED <<quotes, quoteItems, comparisons, comparisonItems, nextId, gc, pq, uq, helper, vq>>

\* updateDocument(Comparisons, {...comparison, status}) settles
UsUpdateDocument(ok) ==
    /\ us.pc = "update"
    /\ IF ok
         THEN /\ comparisons' = updateDocument(comparisons,
                                               [us.comparison[1] EXCEPT !.status = us.status],
                                               "comparisonId")
              /\ us' = [us EXCEPT !.pc = "returned"]
         ELSE /\ us' = [us EXCEPT !.pc = "raised"]
              /\ UNCHANGED comparisons
    /\ UNCHANGED <<quotes, quoteItems, comparisonItems, nextId, gc, pq, uq, helper, vq>>

NextStatus ==
    \/ Next
    \/ \E i \in DOMAIN comparisons : UpdateComparisonStatus(comparisons[i].comparisonId, "accepted")
    \/ \E ok \in BOOLEAN : UsGetDocument(ok)
    \/ \E ok \in BOOLEAN : UsUpdateDocument(ok)

SpecStatus == InitPar /\ [][NextStatus]_vars

(***************************************************************************)
(* Properties of generateComparison.                                       *)
(***************************************************************************)
Returned(c) == gc[c].pc = "returned"
Outcomes(c) == { gc[c].trace[i].outcome : i \in DOMAIN gc[c].trace }
CreatedAttempts(c) == SelectSeq(gc[c].trace, LAMBDA a : a.outcome = "created")
ItemIds(items) == [i \in DOMAIN items |-> items[i].quoteItemId]
AttemptIds(attempts) == [i \in DOMAIN attempts |-> attempts[i].itemId]
\* the quote item a call is working on
CurrentQuoteItem(c) == gc[c].quoteItems[gc[c].idx]
Pricing(c) == gc[c].pc = "persist"

\* C1: when the price computation of some items raises and the other items
\* succeed, the call returns items for exactly the other items and the
\* comparison's totals are the sum of those items' equivalent prices.
C1_PartialFailureTotals ==
    \A c \in Calls :
        (Returned(c) /\ "priceRaised" \in Outcomes(c) /\ Outcomes(c) \subseteq {"priceRaised", "created"})
        => LET r == gc[c].result[1]
           IN  /\ ItemIds(r.items) = AttemptIds(CreatedAttempts(c))
               /\ JsEq(r.comparison.totalWarnkePrice, SumWarnkePrice(r.items))
               /\ JsEq(r.comparison.savingsAmount,
                       JsSub(r.comparison.totalCompetitorPrice, SumWarnkePrice(r.items)))

C3_ErrorStateFallsBack ==
    \A c \in Calls :
        (Pricing(c) /\ gc[c].current[1].price.path = "adapter"
           /\ gc[c].current[1].price.calculation.error # "")
        => LET cur == gc[c].current[1]
           IN  /\ JsEq(cur.price.totalPrice,
                       JsMul(CurrentQuoteItem(c).quantity, cur.product.basePrice))
               /\ JsEq(cur.price.pricePerWindow, cur.product.basePrice)
               /\ cur.price.options = DefaultOptions

\* C4: when the adapter succeeds, the item's warnkePrice is the adapter's
\* total price and its savings are computed from that price.
C4_AdapterPriceUsed ==
    \A c \in Calls :
        (Pricing(c) /\ gc[c].current[1].price.path = "adapter"
           /\ gc[c].current[1].price.calculation.results.set)
        => LET cur == gc[c].current[1]
               total == cur.price.calculation.results.totalPrice
           IN  /\ JsEq(cur.item.warnkePrice, total)
               /\ JsEq(cur.item.savingsAmount, JsSub(cur.item.competitorPrice, total))

\* C5: in every returned result, totalWarnkePrice is the sum of the items'
\* warnkePrice, savingsAmount is totalCompetitorPrice - totalWarnkePrice and
\* savingsPercentage is savingsAmount / totalCompetitorPrice * 100, or 0
\* when totalCompetitorPrice is not positive.
C5_TotalsInvariant ==
    \A c \in Calls :
        Returned(c)
        => LET r == gc[c].result[1]
               cmp == r.comparison
           IN  /\ JsEq(cmp.totalWarnkePrice, SumWarnkePrice(r.items))
               /\ JsEq(cmp.savingsAmount, JsSub(cmp.totalCompetitorPrice, cmp.totalWarnkePrice))
               /\ IF JsGt(cmp.totalCompetitorPrice, Num(0))
                    THEN JsEq(cmp.savingsPercentage,
                              JsMul(JsDiv(cmp.savingsAmount, cmp.totalCompetitorPrice), Num(100)))
                    ELSE JsEq(cmp.savingsPercentage, Num(0))

\* C18: every stored comparison item has savingsAmount = competitorPrice -
\* warnkePrice, and savingsPercentage 0 when competitorPrice is 0 and
\* savingsAmount / competitorPrice * 100 otherwise.
C18_ItemSavings ==
    \A i \in DOMAIN comparisonItems :
        LET item == comparisonItems[i]
        IN  /\ JsEq(item.savingsAmount, JsSub(item.competitorPrice, item.warnkePrice))
            /\ IF JsEq(item.competitorPrice, Num(0))
                 THEN JsEq(item.savingsPercentage, Num(0))
                 ELSE JsEq(item.savingsPercentage,
                           JsMul(JsDiv(item.savingsAmount, item.competitorPrice), Num(100)))

\* the stored rows of the comparison a call created
StoredComparison(c) ==
    SelectSeq(comparisons, LAMBDA r : r.comparisonId = gc[c].comparison[1].comparisonId)
StoredItems(c) ==
    SelectSeq(comparisonItems, LAMBDA r : r.comparisonId = gc[c].comparison[1].comparisonId)

\* the sequence has one entry for each of the quote items, in their order
\* or a sub-order of it, and the entry carries that quote item's data
ItemsOf(items, own) ==
    /\ \A i \in DOMAIN items :
          \E j \in DOMAIN own :
             /\ items[i].quoteItemId = own[j].itemId
             /\ items[i].competitorProductDescription = own[j].description
             /\ items[i].competitorPrice = own[j].totalPrice
             /\ items[i].width = own[j].widthInches
             /\ items[i].height = own[j].heightInches
             /\ items[i].quantity = own[j].quantity
             /\ items[i].savingsAmount = JsSub(own[j].totalPrice, items[i].warnkePrice)
    /\ \A i, k \in DOMAIN items :
          i < k => \E j, n \in DOMAIN own :
                      j < n /\ items[i].quoteItemId = own[j].itemId
                            /\ items[k].quoteItemId = own[n].itemId

\* C19: when calls for different quotes interleave, each call's comparison
\* and items are made of its own quote's data only, as in a run of its own,
\* and the stored rows of a call's comparison are those the call itself
\* wrote, whatever the other call does.
C19_CallsIndependent ==
    \A c \in Calls :
        /\ gc[c].comparison # <<>>
           => LET l == gc[c]
              IN  /\ l.quote = <<quotes[c]>>
                  /\ l.quoteItems = getQuoteItems(c)
                  /\ l.comparison[1].quoteId = c
                  /\ l.comparison[1].totalCompetitorPrice = quotes[c].totalAmount
                  /\ \A d \in Calls :
                        (d # c /\ gc[d].comparison # <<>>)
                        => gc[d].comparison[1].comparisonId # l.comparison[1].comparisonId
                  /\ StoredItems(c) = l.comparisonItems
                  /\ ItemsOf(l.comparisonItems, getQuoteItems(c))
                  /\ ~Returned(c) => StoredComparison(c) = l.comparison
        /\ Returned(c)
           => LET r == gc[c].result[1]
                  t == Totals(quotes[c], r.items)
              IN  /\ r.items = StoredItems(c)
                  /\ StoredComparison(c) = <<r.comparison>>
                  /\ r.comparison = [gc[c].comparison[1] EXCEPT
                                        !.totalWarnkePrice = t.totalWarnkePrice,
                                        !.savingsAmount = t.savingsAmount,
                                        !.savingsPercentage = t.savingsPercentage]

\* C19 witness: both calls returned their item, and each of them created
\* its comparison before either stored an item
C19_Witness ==
    /\ \A c \in QuoteIds : Returned(c) /\ Len(gc[c].result[1].items) = 1
    /\ gc[1].result[1].comparison.comparisonId < gc[2].result[1].comparison.comparisonId
    /\ gc[2].result[1].comparison.comparisonId < gc[1].result[1].items[1].comparisonItemId
    /\ gc[1].result[1].items[1].comparisonItemId < gc[2].result[1].items[1].comparisonItemId
    /\ gc[1].result[1].comparison.totalCompetitorPrice = Num(1400)
    /\ gc[2].result[1].comparison.totalCompetitorPrice = Num(0)

\* C22: from its creation on, a call's Comparison row has the quote's
\* totalAmount as read in step 1 as totalCompetitorPrice, and so has the
\* comparison the call returns.
C22_CompetitorTotalIsQuoteTotal ==
    \A c \in Calls :
        /\ gc[c].comparison # <<>>
           => /\ Len(StoredComparison(c)) = 1
              /\ StoredComparison(c)[1].totalCompetitorPrice = gc[c].quote[1].totalAmount
        /\ Returned(c)
           => gc[c].result[1].comparison.totalCompetitorPrice = gc[c].quote[1].totalAmount

\* C22 witness: a call returned after an item failed, and the quote's total
\* is not the sum of the competitor prices of the items it returned
C22_Witness ==
    \E c \in Calls :
        /\ Returned(c)
        /\ Outcomes(c) \cap {"matchRaised", "priceRaised", "persistFailed"} # {}
        /\ "created" \in Outcomes(c)
        /\ gc[c].result[1].comparison.totalCompetitorPrice = Num(1400)
        /\ SumCompetitorPrice(gc[c].result[1].items) = Num(900)
        /\ StoredComparison(c)[1].totalCompetitorPrice = Num(1400)

\* C26: when a call that created its Comparison has ended, returned or
\* raised, the stored row's totalWarnkePrice is the sum of warnkePrice over
\* the stored items of that comparison and its savingsAmount is
\* totalCompetitorPrice minus that sum.
C26_EndedCallTotals ==
    \A c \in Calls :
        (GcDone(c) /\ gc[c].comparison # <<>>)
        => LET row == StoredComparison(c)[1]
               sum == SumWarnkePrice(StoredItems(c))
           IN  /\ row.totalWarnkePrice = sum
               /\ row.savingsAmount = JsSub(row.totalCompetitorPrice, sum)

\* C30: once a generateComparison call and the updateComparisonStatus call
\* on its comparison have both returned, the stored row has the status the
\* one wrote and the three totals the other wrote.
C30_StatusAndTotalsKept ==
    \A c \in Calls :
        (Returned(c) /\ us.pc = "returned"
           /\ us.comparisonId = gc[c].comparison[1].comparisonId)
        => LET row == StoredComparison(c)[1]
               written == gc[c].result[1].comparison
           IN  /\ row.status = us.status
               /\ row.totalWarnkePrice = written.totalWarnkePrice
               /\ row.savingsAmount = written.savingsAmount
               /\ row.savingsPercentage = written.savingsPercentage

StepOneReads == {"quote", "items", "products"}

\* C6: a failing step-1 read makes the call raise at once, with no
\* Comparison and no ComparisonItem created by that step or by the call
\* before or after it.
C6_ReadFailureIsFatal ==
    [][\A c \in Calls :
          /\ (gc[c].pc = "reads" /\ gc'[c].failed \in StepOneReads)
             => /\ gc'[c].pc = "raised"
                /\ gc'[c].comparison = <<>>
                /\ gc'[c].comparisonItems = <<>>
                /\ comparisons' = comparisons
                /\ comparisonItems' = comparisonItems
          /\ (gc[c].pc = "reads" /\ gc'[c].pc # "raised")
             => (comparisons' = comparisons /\ comparisonItems' = comparisonItems)
          /\ gc[c].pc = "raised" => gc'[c] = gc[c]]_vars

\* C6 witness: a call that raised on a failed read while the store holds
\* no comparison
C6_Witness ==
    \E c \in Calls :
        /\ gc[c].pc = "raised"
        /\ gc[c].failed \in StepOneReads
        /\ comparisons = <<>>
        /\ comparisonItems = <<>>

\* C7: once the item loop is over, every quote item has been attempted
\* exactly once, in order, whatever failed; inside the loop the items before
\* the current one have been; and no item failure makes the call raise.
C7_LoopNeverAborts ==
    \A c \in Calls :
        LET l == gc[c]
            ids == [i \in DOMAIN l.quoteItems |-> l.quoteItems[i].itemId]
        IN  /\ (l.pc \in {"update", "returned"} \/ l.failed = "update")
               => AttemptIds(l.trace) = ids
            /\ l.pc \in {"item", "persist"}
               => (l.idx <= Len(ids) /\ AttemptIds(l.trace) = SubSeq(ids, 1, l.idx - 1))
            /\ l.pc = "raised" => l.failed \in StepOneReads \cup {"create", "update"}
            /\ Len(l.comparisonItems) = Len(SelectSeq(l.trace, LAMBDA a : a.outcome = "created"))

\* C7 witness: a returned call in which an item failed at matching, another
\* at persisting, and a later item was created
C7_Witness ==
    \E c \in Calls :
        /\ Returned(c)
        /\ \E i, j, k \in DOMAIN gc[c].trace :
              /\ i < k /\ j < k
              /\ gc[c].trace[i].outcome = "matchRaised"
              /\ gc[c].trace[j].outcome = "persistFailed"
              /\ gc[c].trace[k].outcome = "created"
        /\ Len(gc[c].result[1].items) < Len(gc[c].quoteItems)

\* position of a quote item in the list the call read
PositionOf(c, itemId) == CHOOSE i \in DOMAIN gc[c].quoteItems : gc[c].quoteItems[i].itemId = itemId

\* C8: the returned items refer to quote items in the order in which the
\* quote items were read.
C8_OrderPreserved ==
    \A c \in Calls :
        Returned(c)
        => LET items == gc[c].result[1].items
           IN  \A i, j \in DOMAIN items :
                  i < j => PositionOf(c, items[i].quoteItemId) < PositionOf(c, items[j].quoteItemId)

\* C8 witness: two items returned around a skipped one
C8_Witness ==
    \E c \in Calls :
        /\ Returned(c)
        /\ Len(gc[c].quoteItems) = 3
        /\ ItemIds(gc[c].result[1].items) = <<1, 3>>

\* C9: at most one Comparison record exists for a given quote.
C9_OneComparisonPerQuote ==
    \A q \in QuoteIds :
        Cardinality({ i \in DOMAIN comparisons : comparisons[i].quoteId = q }) <= 1

(***************************************************************************)
(* Regular expressions, as far as quoteManager uses them.  A pattern is a  *)
(* sequence of nodes and the flag i:                                       *)
(*   "set":   between min and max characters of the set cs, as many as     *)
(*            possible (max < 0: no upper limit)                           *)
(*   "opt":   the next n nodes are an optional group, taken if possible    *)
(*   "open", "close": the parentheses of capture group g                   *)
(* Positions in a string count from 1 inside the matcher; the match that   *)
(* is returned carries index and end counted from 0, as in JavaScript.     *)
(***************************************************************************)
Digits == "0123456789"
DigitCh == { charAt(Digits, i) : i \in 1..Len(Digits) }
SpaceCh == {" ", "\t", "\n", "\r", "\f"}
WordCh == DOMAIN LowerOf \cup DOMAIN UpperOf \cup DigitCh \cup {"_"}

Rep(cs, min, max) == <<[t |-> "set", cs |-> cs, min |-> min, max |-> max, n |-> 0, g |-> 0]>>
Star(cs) == Rep(cs, 0, -1)
Plus(cs) == Rep(cs, 1, -1)
Maybe(cs) == Rep(cs, 0, 1)
Open(g) == <<[t |-> "open", cs |-> {}, min |-> 0, max |-> 0, n |-> 0, g |-> g]>>
Close(g) == <<[t |-> "close", cs |-> {}, min |-> 0, max |-> 0, n |-> 0, g |-> g]>>
Opt(nodes) == <<[t |-> "opt", cs |-> {}, min |-> 0, max |-> 0, n |-> Len(nodes), g |-> 0]>> \o nodes

RECURSIVE Lit(_)
\* the characters of str, one after the other
Lit(str) == IF Len(str) = 0 THEN <<>> ELSE Rep({charAt(str, 1)}, 1, 1) \o Lit(slice(str, 2))

RegExp(nodes, i) == [nodes |-> nodes, i |-> i]

\* does character ch belong to cs under the pattern's flag
chIn(re, ch, cs) == (IF re.i THEN Lower(ch) ELSE ch) \in cs \/ ch \in cs

RECURSIVE RunLen(_, _, _, _, _)
\* how many characters of s from pos on belong to cs, at most left of them
RunLen(re, cs, s, pos, left) ==
    IF pos > Len(s) \/ left = 0 \/ ~chIn(re, charAt(s, pos), cs) THEN 0
    ELSE 1 + RunLen(re, cs, s, pos + 1, left - 1)

NoCaps == [g \in 1..2 |-> [from |-> 1, to |-> 1]]

RECURSIVE matchAt(_, _, _, _, _), tryCounts(_, _, _, _, _, _)
\* the nodes from k on matched against s at pos: no match is <<>>, a match
\* is the position after it and its capture groups.  Alternatives are tried
\* in the backtracking order of the language: longer repetitions first.
matchAt(re, k, s, pos, caps) ==
    IF k > Len(re.nodes) THEN <<[end |-> pos, caps |-> caps]>>
    ELSE LET node == re.nodes[k]
         IN  CASE node.t = "open" ->
                    matchAt(re, k + 1, s, pos, [caps EXCEPT ![node.g].from = pos])
               [] node.t = "close" ->
                    matchAt(re, k + 1, s, pos, [caps EXCEPT ![node.g].to = pos])
               [] node.t = "opt" ->
                    LET taken == matchAt(re, k + 1, s, pos, caps)
                    IN  IF Len(taken) > 0 THEN taken
                        ELSE matchAt(re, k + 1 + node.n, s, pos, caps)
               [] OTHER ->
                    tryCounts(re, k, s, pos, caps,
                              RunLen(re, node.cs, s, pos,
                                     IF node.max < 0 THEN Len(s) ELSE node.max))

tryCounts(re, k, s, pos, caps, count) ==
    IF count < re.nodes[k].min THEN <<>>
    ELSE LET rest == matchAt(re, k + 1, s, pos + count, caps)
         IN  IF Len(rest) > 0 THEN rest ELSE tryCounts(re, k, s, pos, caps, count - 1)

RECURSIVE exec(_, _, _)
\* the leftmost match of re in s that starts at lastIndex or later
exec(re, s, lastIndex) ==
    IF lastIndex > Len(s) THEN <<>>
    ELSE LET m == matchAt(re, 1, s, lastIndex + 1, NoCaps)
         IN  IF Len(m) > 0
               THEN <<[index |-> lastIndex, end |-> m[1].end - 1,
                       groups |-> [g \in DOMAIN m[1].caps |->
                                     SubSeq(s, m[1].caps[g].from, m[1].caps[g].to - 1)]]>>
               ELSE exec(re, s, lastIndex + 1)

\* s.match(re) for a pattern without the flag g: <<>> is null
match(s, re) == exec(re, s, 0)

RECURSIVE firstMatch(_, _)
\* s.match(re1) || s.match(re2) || ...
firstMatch(s, res) ==
    IF Len(res) = 0 THEN <<>>
    ELSE IF Len(match(s, res[1])) > 0 THEN match(s, res[1])
    ELSE firstMatch(s, Tail(res))

RECURSIVE matchAllFrom(_, _, _)
matchAllFrom(s, re, lastIndex) ==
    LET m == exec(re, s, lastIndex)
    IN  IF Len(m) = 0 THEN <<>>
        ELSE m \o matchAllFrom(s, re, IF m[1].end = m[1].index THEN m[1].end + 1 ELSE m[1].end)

\* s.matchAll(re), the pattern having the flag g
matchAll(s, re) == matchAllFrom(s, re, 0)

\* s.replace(re, '') for a pattern without the flag g
replace(s, re) ==
    LET m == match(s, re)
    IN  IF Len(m) = 0 THEN s ELSE SubSeq(s, 1, m[1].index) \o SubSeq(s, m[1].end + 1, Len(s))

RECURSIVE removeAll(_, _)
\* s.replace(/ch/g, '')
removeAll(s, ch) ==
    IF Len(s) = 0 THEN ""
    ELSE (IF charAt(s, 1) = ch THEN "" ELSE charAt(s, 1)) \o removeAll(slice(s, 2), ch)

RECURSIVE trim(_)
trim(s) ==
    IF Len(s) = 0 THEN s
    ELSE IF charAt(s, 1) \in SpaceCh THEN trim(slice(s, 2))
    ELSE IF charAt(s, Len(s)) \in SpaceCh THEN trim(SubSeq(s, 1, Len(s) - 1))
    ELSE s

RECURSIVE indexOf(_, _, _)
\* s.indexOf(ch, from), counted from 0; -1 when there is none
indexOf(s, ch, from) ==
    IF from >= Len(s) THEN -1
    ELSE IF charAt(s, from + 1) = ch THEN from ELSE indexOf(s, ch, from + 1)

RECURSIVE lastIndexOf(_, _, _)
\* s.lastIndexOf(ch, from), counted from 0; -1 when there is none
lastIndexOf(s, ch, from) ==
    IF from < 0 THEN -1
    ELSE IF from < Len(s) /\ charAt(s, from + 1) = ch THEN from
    ELSE lastIndexOf(s, ch, from - 1)

\* s.substring(from, to), counted from 0
substring(s, from, to) == SubSeq(s, from + 1, to)

(***************************************************************************)
(* Numbers and strings.                                                    *)
(***************************************************************************)
DigitOf == [ch \in DigitCh |-> (CHOOSE i \in 1..Len(Digits) : charAt(Digits, i) = ch) - 1]

RECURSIVE Pow10(_)
Pow10(k) == IF k = 0 THEN 1 ELSE 10 * Pow10(k - 1)

RECURSIVE DigitsValue(_)
\* the value of a string of digits, 0 for the empty string
DigitsValue(str) ==
    IF Len(str) = 0 THEN 0
    ELSE 10 * DigitsValue(SubSeq(str, 1, Len(str) - 1)) + DigitOf[charAt(str, Len(str))]

RECURSIVE DigitRun(_, _)
\* the number of digits str has from pos on
DigitRun(str, pos) ==
    IF pos > Len(str) \/ charAt(str, pos) \notin DigitCh THEN 0 ELSE 1 + DigitRun(str, pos + 1)

\* parseFloat(str) of a string that starts with neither space nor sign: the
\* longest prefix digits[.digits] is converted, NaN when it is empty
parseFloat(str) ==
    LET int == DigitRun(str, 1)
        frac == IF int < Len(str) /\ charAt(str, int + 1) = "." THEN DigitRun(str, int + 2) ELSE 0
    IN  IF int = 0 /\ frac = 0 THEN NaN
        ELSE Rat(DigitsValue(SubSeq(str, 1, int)) * Pow10(frac)
                   + DigitsValue(SubSeq(str, int + 2, int + 1 + frac)),
                 Pow10(frac))

\* parseInt(str, 10) of a string that starts with neither space nor sign
parseInt(str) ==
    IF DigitRun(str, 1) = 0 THEN NaN ELSE Num(DigitsValue(SubSeq(str, 1, DigitRun(str, 1))))

RECURSIVE IntString(_)
IntString(n) ==
    IF n < 10 THEN charAt(Digits, n + 1)
    ELSE IntString(n \div 10) \o charAt(Digits, (n % 10) + 1)

RECURSIVE FractionString(_, _)
\* the decimal digits of n/d, 0 <= n < d, the expansion being finite
FractionString(n, d) ==
    IF n = 0 THEN "" ELSE IntString((10 * n) \div d) \o FractionString((10 * n) % d, d)

\* String(x) of a non-negative number with a finite decimal expansion
NumberString(x) ==
    IF ~IsNum(x) THEN "NaN"
    ELSE IntString(x.n \div x.d)
         \o (IF x.n % x.d = 0 THEN "" ELSE "." \o FractionString(x.n % x.d, x.d))

(***************************************************************************)
(* quoteManager: parseQuoteText.                                           *)
(***************************************************************************)
\* \w+[-]?\d+ in capture group 1
NumberGroup == Open(1) \o Plus(WordCh) \o Maybe({"-"}) \o Plus(DigitCh) \o Close(1)

quoteNumberPatterns ==
    << RegExp(Lit("quote") \o Star(SpaceCh) \o Maybe({"#"}) \o Star(SpaceCh) \o NumberGroup, TRUE),
       RegExp(Lit("quote") \o Star(SpaceCh) \o Lit("number") \o Star(SpaceCh) \o Maybe({":"})
              \o Star(SpaceCh) \o NumberGroup, TRUE),
       RegExp(Lit("estimate") \o Star(SpaceCh) \o Maybe({"#"}) \o Star(SpaceCh) \o NumberGroup, TRUE) >>

\* \d{1,2}[\/\-\.]\d{1,2}[\/\-\.]\d{2,4} in capture group 1
DateGroup ==
    Open(1) \o Rep(DigitCh, 1, 2) \o Rep({"/", "-", "."}, 1, 1) \o Rep(DigitCh, 1, 2)
    \o Rep({"/", "-", "."}, 1, 1) \o Rep(DigitCh, 2, 4) \o Close(1)

datePatterns ==
    << RegExp(Lit("date") \o Star(SpaceCh) \o Maybe({":"}) \o Star(SpaceCh) \o DateGroup, TRUE),
       RegExp(DateGroup, FALSE) >>

\* \s*:?\s*\$?\s*([\d,]+\.\d{2})
AmountGroup ==
    Star(SpaceCh) \o Maybe({":"}) \o Star(SpaceCh) \o Maybe({"$"}) \o Star(SpaceCh)
    \o Open(1) \o Plus(DigitCh \cup {","}) \o Lit(".") \o Rep(DigitCh, 2, 2) \o Close(1)

totalPatterns ==
    << RegExp(Lit("total") \o AmountGroup, TRUE),
       RegExp(Lit("grand") \o Star(SpaceCh) \o Lit("total") \o AmountGroup, TRUE),
       RegExp(Lit("amount") \o Star(SpaceCh) \o Lit("due") \o AmountGroup, TRUE) >>

\* \d+(?:\.\d+)?
Decimal == Plus(DigitCh) \o Opt(Lit(".") \o Plus(DigitCh))

\* (\d+(?:\.\d+)?)\s*(?:x|×)\s*(\d+(?:\.\d+)?)
DimensionNodes(capture) ==
    (IF capture THEN Open(1) ELSE <<>>) \o Decimal \o (IF capture THEN Close(1) ELSE <<>>)
    \o Star(SpaceCh) \o Rep({"x", "×"}, 1, 1) \o Star(SpaceCh)
    \o (IF capture THEN Open(2) ELSE <<>>) \o Decimal \o (IF capture THEN Close(2) ELSE <<>>)

dimensionPattern == RegExp(DimensionNodes(TRUE), TRUE)

\* \$\s*([\d,]+\.\d{2})
pricePattern ==
    RegExp(Lit("$") \o Star(SpaceCh) \o Open(1) \o Plus(DigitCh \cup {","}) \o Lit(".")
           \o Rep(DigitCh, 2, 2) \o Close(1), FALSE)

\* qty\s*:?\s*(\d+) and quantity\s*:?\s*(\d+)
QtyNodes(word) ==
    Lit(word) \o Star(SpaceCh) \o Maybe({":"}) \o Star(SpaceCh)
    \o Open(1) \o Plus(DigitCh) \o Close(1)

qtyPatterns == << RegExp(QtyNodes("qty"), TRUE), RegExp(QtyNodes("quantity"), TRUE) >>

\* the patterns that are deleted from the line to leave the description;
\* the dimension pattern is used without the flag i here
descriptionPatterns ==
    << pricePattern, qtyPatterns[1], qtyPatterns[2], RegExp(DimensionNodes(FALSE), FALSE) >>

RECURSIVE replaceEach(_, _)
\* s.replace(re1, '').trim().replace(re2, '').trim() ...
replaceEach(s, res) ==
    IF Len(res) = 0 THEN s ELSE replaceEach(trim(replace(s, res[1])), Tail(res))

\* the result of the catch block
EmptyParse ==
    [raised |-> FALSE, quoteNumber |-> "", quoteDate |-> "null", totalAmount |-> Num(0),
     items |-> <<>>]

\* the try block raises: text.match is not a function
parseThrows(text) == text = UndefinedStr

\* the loop body with the line taken from the start of the text
parsedItemFromTextStart(text, m) ==
    LET width == parseFloat(m.groups[1])
        height == parseFloat(m.groups[2])
        newline == lastIndexOf(text, "\n", m.index)
        lineStart == 0
        lineEnd == indexOf(text, "\n", m.index)
        line == substring(text, lineStart, IF lineEnd > -1 THEN lineEnd ELSE Len(text))
        priceMatch == match(line, pricePattern)
        price == IF Len(priceMatch) > 0 THEN parseFloat(removeAll(priceMatch[1].groups[1], ","))
                 ELSE Num(0)
        qtyMatch == firstMatch(line, qtyPatterns)
        quantity == IF Len(qtyMatch) > 0 THEN parseInt(qtyMatch[1].groups[1]) ELSE Num(1)
        rest == replaceEach(line, descriptionPatterns)
        description == IF rest = ""
                         THEN NumberString(width) \o "\" × " \o NumberString(height) \o "\" Window"
                         ELSE rest
    IN  [keep |-> JsGt(width, Num(0)) /\ JsGt(height, Num(0)),
         line |-> line,
         item |-> [widthInches |-> width, heightInches |-> height,
                   description |-> description, quantity |-> quantity,
                   unitPrice |-> JsDiv(price, quantity), totalPrice |-> price,
                   confidenceScore |-> Rat(8, 10)]]

\* the body of the loop over the dimension matches: the item of one match,
\* with keep telling whether it is pushed
parsedItem(text, m) ==
    LET width == parseFloat(m.groups[1])
        height == parseFloat(m.groups[2])
        newline == lastIndexOf(text, "\n", m.index)
        lineStart == IF newline > 0 THEN newline ELSE 0
        lineEnd == indexOf(text, "\n", m.index)
        line == substring(text, lineStart, IF lineEnd > -1 THEN lineEnd ELSE Len(text))
        priceMatch == match(line, pricePattern)
        price == IF Len(priceMatch) > 0 THEN parseFloat(removeAll(priceMatch[1].groups[1], ","))
                 ELSE Num(0)
        qtyMatch == firstMatch(line, qtyPatterns)
        quantity == IF Len(qtyMatch) > 0 THEN parseInt(qtyMatch[1].groups[1]) ELSE Num(1)
        rest == replaceEach(line, descriptionPatterns)
        description == IF rest = ""
                         THEN NumberString(width) \o "\" × " \o NumberString(height) \o "\" Window"
                         ELSE rest
    IN  [keep |-> JsGt(width, Num(0)) /\ JsGt(height, Num(0)),
         line |-> line,
         item |-> [widthInches |-> width, heightInches |-> height,
                   description |-> description, quantity |-> quantity,
                   unitPrice |-> JsDiv(price, quantity), totalPrice |-> price,
                   confidenceScore |-> Rat(8, 10)]]

\* parseQuoteText without its try and catch
parseQuoteTextUncaught(text, dateParses) ==
    IF parseThrows(text) THEN [EmptyParse EXCEPT !.raised = TRUE]
    ELSE
      LET quoteNumberMatch == firstMatch(text, quoteNumberPatterns)
          dateMatch == firstMatch(text, datePatterns)
          totalMatch == firstMatch(text, totalPatterns)
          dimensionMatches == matchAll(text, dimensionPattern)
          parsed == [i \in DOMAIN dimensionMatches |-> parsedItem(text, dimensionMatches[i])]
          pushed == SelectSeq(parsed, LAMBDA it : it.keep)
      IN  [raised |-> FALSE,
           quoteNumber |-> IF Len(quoteNumberMatch) > 0 THEN quoteNumberMatch[1].groups[1] ELSE "",
           quoteDate |-> IF Len(dateMatch) > 0 /\ dateParses THEN dateMatch[1].groups[1] ELSE "null",
           totalAmount |-> IF Len(totalMatch) > 0
                             THEN parseFloat(removeAll(totalMatch[1].groups[1], ","))
                             ELSE Num(0),
           items |-> [i \in DOMAIN pushed |-> pushed[i].item]]

\* parseQuoteText(text, competitorName).  text is a string, or undefined
\* when extractText resolved with no text; dateParses tells whether
\* new Date(...) of the matched date is a valid date.  A Date is modelled by
\* the string it was made from.  raised tells whether the call raised.
parseQuoteText(text, dateParses) ==
    IF parseThrows(text) THEN EmptyParse
    ELSE
      LET quoteNumberMatch == firstMatch(text, quoteNumberPatterns)
          dateMatch == firstMatch(text, datePatterns)
          totalMatch == firstMatch(text, totalPatterns)
          dimensionMatches == matchAll(text, dimensionPattern)
          parsed == [i \in DOMAIN dimensionMatches |-> parsedItem(text, dimensionMatches[i])]
          pushed == SelectSeq(parsed, LAMBDA it : it.keep)
      IN  [raised |-> FALSE,
           quoteNumber |-> IF Len(quoteNumberMatch) > 0 THEN quoteNumberMatch[1].groups[1] ELSE "",
           quoteDate |-> IF Len(dateMatch) > 0 /\ dateParses THEN dateMatch[1].groups[1] ELSE "null",
           totalAmount |-> IF Len(totalMatch) > 0
                             THEN parseFloat(removeAll(totalMatch[1].groups[1], ","))
                             ELSE Num(0),
           items |-> [i \in DOMAIN pushed |-> pushed[i].item]]

\* What extractText can resolve with for the uploaded document: no text at
\* all, a quote with one priced item and a total, a quote with a quantity
\* and a dimension of width 0, and a line whose quantity is 0
Texts ==
    { UndefinedStr,
      "Quote #AB-1234\n36x60 Low-E Argon $450.00\nTotal: $450.00",
      "Date: 01/15/2024\nCasement 24x36 qty 2 $300.00\n0x60 $100.00",
      "36 x 60 qty: 0" }

\* parseQuoteText on each of these texts
parsedTexts == [text \in Texts, dateParses \in BOOLEAN |-> parseQuoteText(text, dateParses)]

(***************************************************************************)
(* processQuote(quoteId)                                                   *)
(***************************************************************************)
\* updateDocument on CompetitorQuotes: the record replaces the stored one
PutQuote(record) == [quotes EXCEPT ![record.quoteId] = record]

\* the call starts; the uploader awaits each call and is disabled while
\* one is running, so the calls come one after the other
ProcessQuote(c, quoteId) ==
    /\ pq[c].pc = "idle"
    /\ \A d \in ProcessCalls : d < c => PqDone(d)
    /\ pq' = [pq EXCEPT ![c] =
                 [PqIdle EXCEPT !.pc = "get", !.quoteId = quoteId,
                                !.before = IF quoteId \in DOMAIN quotes
                                             THEN <<[quote |-> quotes[quoteId],
                                                     items |-> Len(quoteItems)]>>
                                             ELSE <<>>]]
    /\ UNCHANGED <<quotes, quoteItems, comparisons, comparisonItems, nextId, gc, uq, helper, vq, us>>

\* getDocument(CompetitorQuotes, quoteId) settles; a missing quote raises
PqGetDocument(c, ok) ==
    /\ pq[c].pc = "get"
    /\ IF ok /\ pq[c].quoteId \in DOMAIN quotes
         THEN pq' = [pq EXCEPT ![c].pc = "setProcessing", ![c].quote = <<quotes[pq[c].quoteId]>>]
         ELSE pq' = [pq EXCEPT ![c].pc = "catchGet", ![c].failed = "getDocument"]
    /\ UNCHANGED <<quotes, quoteItems, comparisons, comparisonItems, nextId, gc, uq, helper, vq, us>>

\* updateDocument({...quote, extractionStatus: 'processing'}) settles
PqSetProcessing(c, ok) ==
    /\ pq[c].pc = "setProcessing"
    /\ IF ok
         THEN /\ quotes' = PutQuote([pq[c].quote[1] EXCEPT !.extractionStatus = "processing"])
              /\ pq' = [pq EXCEPT ![c].pc = "extract", ![c].setProcessing = TRUE]
         ELSE /\ pq' = [pq EXCEPT ![c].pc = "catchGet", ![c].failed = "setProcessing"]
              /\ UNCHANGED quotes
    /\ UNCHANGED <<quoteItems, comparisons, comparisonItems, nextId, gc, uq, helper, vq, us>>

\* where createQuoteItems goes after position idx
ItemLoopFrom(l, idx) ==
    IF idx > Len(l.parsedData[1].items)
      THEN [l EXCEPT !.pc = "setProcessed", !.idx = idx]
      ELSE [l EXCEPT !.pc = "createItem", !.idx = idx]

\* extractText(quote.documentUrl) settles and the text is parsed;
\* parseQuoteText has no suspension point of its own
PqExtractText(c, ok, text, dateParses) ==
    /\ pq[c].pc = "extract"
    /\ IF ~ok
         THEN pq' = [pq EXCEPT ![c].pc = "catchGet", ![c].failed = "extractText"]
         ELSE IF parsedTexts[text, dateParses].raised
           THEN pq' = [pq EXCEPT ![c].pc = "catchGet", ![c].failed = "parseQuoteText"]
         ELSE pq' = [pq EXCEPT ![c] =
                       ItemLoopFrom([@ EXCEPT !.parsedData = <<parsedTexts[text, dateParses]>>], 1)]
    /\ UNCHANGED <<quotes, quoteItems, comparisons, comparisonItems, nextId, gc, uq, helper, vq, us>>

\* createQuoteItems, one item: createDocument settles; a failure is caught
\* and the loop goes on
PqCreateItem(c, ok) ==
    /\ pq[c].pc = "createItem"
    /\ LET l == pq[c]
           item == l.parsedData[1].items[l.idx]
           newItem == [itemId |-> nextId, quoteId |-> l.quoteId, quantity |-> item.quantity,
                       widthInches |-> item.widthInches, heightInches |-> item.heightInches,
                       description |-> item.description, unitPrice |-> item.unitPrice,
                       totalPrice |-> item.totalPrice, confidenceScore |-> item.confidenceScore]
       IN  IF ok
             THEN /\ quoteItems' = Append(quoteItems, newItem)
                  /\ nextId' = nextId + 1
                  /\ pq' = [pq EXCEPT ![c] =
                             ItemLoopFrom([l EXCEPT !.createdItems = Append(@, newItem)], l.idx + 1)]
             ELSE /\ pq' = [pq EXCEPT ![c] = ItemLoopFrom(l, l.idx + 1)]
                  /\ UNCHANGED <<quoteItems, nextId>>
    /\ UNCHANGED <<quotes, comparisons, comparisonItems, gc, uq, helper, vq, us>>

\* the record of the final update: the quote as read at the start, with
\* the parsed fields and status 'processed'
ProcessedQuote(l) ==
    [l.quote[1] EXCEPT !.quoteNumber = l.parsedData[1].quoteNumber,
                       !.quoteDate = l.parsedData[1].quoteDate,
                       !.totalAmount = IF IsNum(l.parsedData[1].totalAmount)
                                       THEN l.parsedData[1].totalAmount ELSE Num(0),
                       !.itemsCount = Len(l.createdItems),
                       !.extractionStatus = "processed"]

\* the final update without extractionStatus: the status read at the start
\* is written back
PqSetProcessedKeepsStatus(c, ok) ==
    /\ pq[c].pc = "setProcessed"
    /\ IF ok
         THEN /\ quotes' = PutQuote([ProcessedQuote(pq[c]) EXCEPT
                                       !.extractionStatus = pq[c].quote[1].extractionStatus])
              /\ pq' = [pq EXCEPT ![c].pc = "returned"]
         ELSE /\ pq' = [pq EXCEPT ![c].pc = "catchGet", ![c].failed = "setProcessed"]
              /\ UNCHANGED quotes
    /\ UNCHANGED <<quoteItems, comparisons, comparisonItems, nextId, gc, uq, helper, vq, us>>

\* the final updateDocument settles; the call returns the updated quote
PqSetProcessed(c, ok) ==
    /\ pq[c].pc = "setProcessed"
    /\ IF ok
         THEN /\ quotes' = PutQuote(ProcessedQuote(pq[c]))
              /\ pq' = [pq EXCEPT ![c].pc = "returned"]
         ELSE /\ pq' = [pq EXCEPT ![c].pc = "catchGet", ![c].failed = "setProcessed"]
              /\ UNCHANGED quotes
    /\ UNCHANGED <<quoteItems, comparisons, comparisonItems, nextId, gc, uq, helper, vq, us>>

\* catch block: getDocument settles.  When it fails, or finds no quote,
\* nothing is written and the call raises.
PqCatchGet(c, ok) ==
    /\ pq[c].pc = "catchGet"
    /\ IF ok /\ pq[c].quoteId \in DOMAIN quotes
         THEN pq' = [pq EXCEPT ![c].pc = "catchUpdate", ![c].quote = <<quotes[pq[c].quoteId]>>]
         ELSE pq' = [pq EXCEPT ![c].pc = "raised"]
    /\ UNCHANGED <<quotes, quoteItems, comparisons, comparisonItems, nextId, gc, uq, helper, vq, us>>

\* the catch block's update with the parsed fields reset to those of a
\* newly uploaded quote
PqCatchUpdateResetsFields(c, ok) ==
    /\ pq[c].pc = "catchUpdate"
    /\ IF ok
         THEN /\ quotes' = PutQuote([pq[c].quote[1] EXCEPT !.extractionStatus = "error",
                                                           !.quoteNumber = "",
                                                           !.totalAmount = Num(0),
                                                           !.itemsCount = 0])
              /\ pq' = [pq EXCEPT ![c].pc = "raised", ![c].wroteError = TRUE]
         ELSE /\ pq' = [pq EXCEPT ![c].pc = "raised"]
              /\ UNCHANGED quotes
    /\ UNCHANGED <<quoteItems, comparisons, comparisonItems, nextId, gc, uq, helper, vq, us>>

\* catch block: updateDocument({...quote, extractionStatus: 'error'})
\* settles; its failure is logged only.  The call raises.
PqCatchUpdate(c, ok) ==
    /\ pq[c].pc = "catchUpdate"
    /\ IF ok
         THEN /\ quotes' = PutQuote([pq[c].quote[1] EXCEPT !.extractionStatus = "error"])
              /\ pq' = [pq EXCEPT ![c].pc = "raised", ![c].wroteError = TRUE]
         ELSE /\ pq' = [pq EXCEPT ![c].pc = "raised"]
              /\ UNCHANGED quotes
    /\ UNCHANGED <<quoteItems, comparisons, comparisonItems, nextId, gc, uq, helper, vq, us>>

\* a document has been uploaded and nothing else has happened
InitQuote ==
    /\ quotes = [q \in {1} |-> Quote(1, Num(0), 0, "pending")]
    /\ quoteItems = <<>>
    /\ comparisons = <<>>
    /\ comparisonItems = <<>>
    /\ nextId = 100
    /\ gc = [c \in Calls |-> GcIdle]
    /\ pq = [c \in ProcessCalls |-> PqIdle]
    /\ uq = [c \in UpdateCalls |-> UqIdle]
    /\ vq = VqIdle
    /\ us = UsIdle
    /\ helper = NoHelperCall

NextQuote ==
    \/ \E c \in ProcessCalls, q \in {1, MissingQuote} : ProcessQuote(c, q)
    \/ \E c \in ProcessCalls, ok \in BOOLEAN : PqGetDocument(c, ok)
    \/ \E c \in ProcessCalls, ok \in BOOLEAN : PqSetProcessing(c, ok)
    \/ \E c \in ProcessCalls, ok \in BOOLEAN, text \in Texts, dateParses \in BOOLEAN :
          PqExtractText(c, ok, text, dateParses)
    \/ \E c \in ProcessCalls, ok \in BOOLEAN : PqCreateItem(c, ok)
    \/ \E c \in ProcessCalls, ok \in BOOLEAN : PqSetProcessed(c, ok)
    \/ \E c \in ProcessCalls, ok \in BOOLEAN : PqCatchGet(c, ok)
    \/ \E c \in ProcessCalls, ok \in BOOLEAN : PqCatchUpdate(c, ok)

SpecQuote == InitQuote /\ [][NextQuote]_vars

(***************************************************************************)
(* verifyQuote(quoteId).  The verification form is mounted for the quote   *)
(* id of the page address, so the call can come at any time.               *)
(***************************************************************************)
VerifyQuote(quoteId) ==
    /\ vq.pc = "idle"
    /\ vq' = [VqIdle EXCEPT !.pc = "get", !.quoteId = quoteId]
    /\ UNCHANGED <<quotes, quoteItems, comparisons, comparisonItems, nextId, gc, pq, uq, helper, us>>

\* getDocument(CompetitorQuotes, quoteId) settles; a missing quote raises
VqGetDocument(ok) ==
    /\ vq.pc = "get"
    /\ IF ok /\ vq.quoteId \in DOMAIN quotes
         THEN vq' = [vq EXCEPT !.pc = "update", !.quote = <<quotes[vq.quoteId]>>]
         ELSE vq' = [vq EXCEPT !.pc = "raised"]
    /\ UNCHANGED <<quotes, quoteItems, comparisons, comparisonItems, nextId, gc, pq, uq, helper, us>>

\* updateDocument({...quote, extractionStatus: 'verified'}) settles
VqUpdateDocument(ok) ==
    /\ vq.pc = "update"
    /\ IF ok
         THEN /\ quotes' = PutQuote([vq.quote[1] EXCEPT !.extractionStatus = "verified"])
              /\ vq' = [vq EXCEPT !.pc = "returned"]
         ELSE /\ vq' = [vq EXCEPT !.pc = "raised"]
              /\ UNCHANGED quotes
    /\ UNCHANGED <<quoteItems, comparisons, comparisonItems, nextId, gc, pq, uq, helper, us>>

\* an uploaded quote, processQuote calls on it and one verifyQuote call
NextVerify ==
    \/ NextQuote
    \/ \E q \in {1, MissingQuote} : VerifyQuote(q)
    \/ \E ok \in BOOLEAN : VqGetDocument(ok)
    \/ \E ok \in BOOLEAN : VqUpdateDocument(ok)

SpecVerify == InitQuote /\ [][NextVerify]_vars

\* C21: a quote becomes verified only from processed, and a verified quote
\* stays verified.
C21_VerifiedOnlyFromProcessed ==
    [][\A q \in DOMAIN quotes :
         /\ (quotes'[q].extractionStatus = "verified" /\ quotes[q].extractionStatus # "verified")
            => quotes[q].extractionStatus = "processed"
         /\ quotes[q].extractionStatus = "verified"
            => quotes'[q].extractionStatus = "verified"]_vars

(***************************************************************************)
(* updateQuoteItem(itemId, field, value) and updateQuoteTotalAmount.       *)
(***************************************************************************)
MissingItem == 99

\* the fields the verification form edits, with values its inputs can
\* produce: parseInt and parseFloat give NaN for an emptied input
Edits ==
    { <<"quantity", Num(3)>>, <<"quantity", Num(0)>>, <<"quantity", NaN>>,
      <<"unitPrice", Num(100)>>, <<"widthInches", Num(48)>>, <<"heightInches", Num(0)>>,
      <<"totalPrice", Num(500)>>, <<"totalPrice", Num(0)>>, <<"description", "Bay window">> }

\* the item parseQuoteText makes of a line with "qty: 0" and no price
ZeroQuantityKind ==
    [quantity |-> Num(0), widthInches |-> Num(36), heightInches |-> Num(60),
     description |-> "", unitPrice |-> NaN, totalPrice |-> Num(0)]

\* updatedItem with the unit price left as it was when the total is edited
updatedItemKeepsUnitPrice(item, field, value) ==
    LET updatedItem == [item EXCEPT ![field] = value]
    IN  IF field \in {"widthInches", "heightInches", "quantity", "unitPrice"}
          THEN [updatedItem EXCEPT !.totalPrice = JsMul(updatedItem.unitPrice, updatedItem.quantity)]
        ELSE updatedItem

\* lines 339-351: the item with the field set and the price recalculated
updatedItem(item, field, value) ==
    LET updatedItem == [item EXCEPT ![field] = value]
    IN  IF field \in {"widthInches", "heightInches", "quantity", "unitPrice"}
          THEN [updatedItem EXCEPT !.totalPrice = JsMul(updatedItem.unitPrice, updatedItem.quantity)]
        ELSE IF field = "totalPrice"
          THEN [updatedItem EXCEPT !.unitPrice = JsDiv(value, updatedItem.quantity)]
        ELSE updatedItem

RECURSIVE SumTotalPrice(_)
\* items.reduce((total, item) => total + item.totalPrice, 0)
SumTotalPrice(items) ==
    IF Len(items) = 0 THEN Num(0)
    ELSE JsAdd(SumTotalPrice(SubSeq(items, 1, Len(items) - 1)), items[Len(items)].totalPrice)

\* the call starts: the form calls without waiting for the call before
UpdateQuoteItem(c, itemId, field, value) ==
    /\ uq[c].pc = "idle"
    /\ uq' = [uq EXCEPT ![c] = [UqIdle EXCEPT !.pc = "get", !.itemId = itemId,
                                              !.field = field, !.value = value]]
    /\ UNCHANGED <<quotes, quoteItems, comparisons, comparisonItems, nextId, gc, pq, helper, vq, us>>

\* getDocument(QuoteItems, itemId) settles; no item or a store error raise
UqGetDocument(c, ok) ==
    /\ uq[c].pc = "get"
    /\ LET found == SelectSeq(quoteItems, LAMBDA it : it.itemId = uq[c].itemId)
       IN  IF ok /\ found # <<>>
             THEN uq' = [uq EXCEPT ![c].pc = "update", ![c].item = <<found[1]>>,
                                   ![c].updatedItem =
                                      <<updatedItem(found[1], uq[c].field, uq[c].value)>>]
             ELSE uq' = [uq EXCEPT ![c].pc = "raised"]
    /\ UNCHANGED <<quotes, quoteItems, comparisons, comparisonItems, nextId, gc, pq, helper, vq, us>>

\* updateDocument(QuoteItems, updatedItem) settles
UqUpdateDocument(c, ok) ==
    /\ uq[c].pc = "update"
    /\ IF ok
         THEN /\ quoteItems' = updateDocument(quoteItems, uq[c].updatedItem[1], "itemId")
              /\ uq' = [uq EXCEPT ![c].pc = "totalItems"]
         ELSE /\ uq' = [uq EXCEPT ![c].pc = "raised"]
              /\ UNCHANGED quoteItems
    /\ UNCHANGED <<quotes, comparisons, comparisonItems, nextId, gc, pq, helper, vq, us>>

\* updateQuoteTotalAmount: getQuoteItems(quoteId) settles; its error is
\* caught and updateQuoteItem returns
UqTotalGetItems(c, ok) ==
    /\ uq[c].pc = "totalItems"
    /\ IF ok
         THEN uq' = [uq EXCEPT ![c].pc = "totalQuote",
                               ![c].items = getQuoteItems(uq[c].item[1].quoteId)]
         ELSE uq' = [uq EXCEPT ![c].pc = "returned", ![c].totalFailed = TRUE]
    /\ UNCHANGED <<quotes, quoteItems, comparisons, comparisonItems, nextId, gc, pq, helper, vq, us>>

\* updateQuoteTotalAmount: getDocument(Quotes, quoteId) settles; without a
\* quote nothing is written
UqTotalGetQuote(c, ok) ==
    /\ uq[c].pc = "totalQuote"
    /\ LET quoteId == uq[c].item[1].quoteId
       IN  IF ~ok
             THEN uq' = [uq EXCEPT ![c].pc = "returned", ![c].totalFailed = TRUE]
           ELSE IF quoteId \in DOMAIN quotes
             THEN uq' = [uq EXCEPT ![c].pc = "totalUpdate", ![c].quote = <<quotes[quoteId]>>]
           ELSE uq' = [uq EXCEPT ![c].pc = "returned"]
    /\ UNCHANGED <<quotes, quoteItems, comparisons, comparisonItems, nextId, gc, pq, helper, vq, us>>

\* the last write of updateQuoteTotalAmount without the new totalAmount
UqTotalUpdateKeepsTotal(c, ok) ==
    /\ uq[c].pc = "totalUpdate"
    /\ IF ok
         THEN /\ quotes' = PutQuote(uq[c].quote[1])
              /\ uq' = [uq EXCEPT ![c].pc = "returned"]
         ELSE /\ uq' = [uq EXCEPT ![c].pc = "returned", ![c].totalFailed = TRUE]
              /\ UNCHANGED quotes
    /\ UNCHANGED <<quoteItems, comparisons, comparisonItems, nextId, gc, pq, helper, vq, us>>

\* updateQuoteTotalAmount: updateDocument(Quotes, {...quote, totalAmount})
UqTotalUpdate(c, ok) ==
    /\ uq[c].pc = "totalUpdate"
    /\ IF ok
         THEN /\ quotes' = PutQuote([uq[c].quote[1] EXCEPT
                                       !.totalAmount = SumTotalPrice(uq[c].items)])
              /\ uq' = [uq EXCEPT ![c].pc = "returned"]
         ELSE /\ uq' = [uq EXCEPT ![c].pc = "returned", ![c].totalFailed = TRUE]
              /\ UNCHANGED quotes
    /\ UNCHANGED <<quoteItems, comparisons, comparisonItems, nextId, gc, pq, helper, vq, us>>

\* a quote with two items, the first one of any kind the parser leaves
InitUpdate ==
    /\ \E kind \in ItemKinds \cup {ZeroQuantityKind} :
         quoteItems = << QuoteItem(kind, 1, 1),
                         QuoteItem(CHOOSE k \in ItemKinds : k.totalPrice = Num(900), 2, 1) >>
    /\ quotes = [q \in {1} |-> Quote(1, Num(1400), 2, "processed")]
    /\ comparisons = <<>>
    /\ comparisonItems = <<>>
    /\ nextId = 100
    /\ gc = [c \in Calls |-> GcIdle]
    /\ pq = [c \in ProcessCalls |-> PqIdle]
    /\ uq = [c \in UpdateCalls |-> UqIdle]
    /\ vq = VqIdle
    /\ us = UsIdle
    /\ helper = NoHelperCall

NextUpdate ==
    \/ \E c \in UpdateCalls, itemId \in {1, 2, MissingItem}, e \in Edits :
          UpdateQuoteItem(c, itemId, e[1], e[2])
    \/ \E c \in UpdateCalls, ok \in BOOLEAN : UqGetDocument(c, ok)
    \/ \E c \in UpdateCalls, ok \in BOOLEAN : UqUpdateDocument(c, ok)
    \/ \E c \in UpdateCalls, ok \in BOOLEAN : UqTotalGetItems(c, ok)
    \/ \E c \in UpdateCalls, ok \in BOOLEAN : UqTotalGetQuote(c, ok)
    \/ \E c \in UpdateCalls, ok \in BOOLEAN : UqTotalUpdate(c, ok)

SpecUpdate == InitUpdate /\ [][NextUpdate]_vars

(***************************************************************************)
(* updateQuoteItem calls in flight together: the form calls on every       *)
(* change of an input and disables nothing while a call runs.              *)
(***************************************************************************)
ParUpdateCalls == 1..(MaxUpdateCalls + 1)

\* edits of fields that do not depend on one another
ParEdits == { <<"quantity", Num(3)>>, <<"widthInches", Num(48)>>, <<"description", "Bay window">> }

InitUpdatePar ==
    /\ \E kind \in ItemKinds \cup {ZeroQuantityKind} :
         quoteItems = << QuoteItem(kind, 1, 1),
                         QuoteItem(CHOOSE k \in ItemKinds : k.totalPrice = Num(900), 2, 1) >>
    /\ quotes = [q \in {1} |-> Quote(1, Num(1400), 2, "processed")]
    /\ comparisons = <<>>
    /\ comparisonItems = <<>>
    /\ nextId = 100
    /\ gc = [c \in Calls |-> GcIdle]
    /\ pq = [c \in ProcessCalls |-> PqIdle]
    /\ uq = [c \in ParUpdateCalls |-> UqIdle]
    /\ vq = VqIdle
    /\ us = UsIdle
    /\ helper = NoHelperCall

NextUpdatePar ==
    \/ \E c \in ParUpdateCalls, itemId \in {1, 2}, e \in ParEdits :
          UpdateQuoteItem(c, itemId, e[1], e[2])
    \/ \E c \in ParUpdateCalls, ok \in BOOLEAN : UqGetDocument(c, ok)
    \/ \E c \in ParUpdateCalls, ok \in BOOLEAN : UqUpdateDocument(c, ok)
    \/ \E c \in ParUpdateCalls, ok \in BOOLEAN : UqTotalGetItems(c, ok)
    \/ \E c \in ParUpdateCalls, ok \in BOOLEAN : UqTotalGetQuote(c, ok)
    \/ \E c \in ParUpdateCalls, ok \in BOOLEAN : UqTotalUpdate(c, ok)

SpecUpdatePar == InitUpdatePar /\ [][NextUpdatePar]_vars

(***************************************************************************)
(* Properties of updateQuoteItem.                                          *)
(***************************************************************************)
UqReturned(c) == uq[c].pc = "returned"
StoredItem(itemId) == SelectSeq(quoteItems, LAMBDA it : it.itemId = itemId)

\* C20: when updateQuoteItem has returned and the stored item is the one it
\* wrote, the item has totalPrice = unitPrice * quantity after an update
\* of quantity, unitPrice, widthInches or heightInches, it has unitPrice =
\* totalPrice / quantity after an update of totalPrice, and its unitPrice
\* and totalPrice are those the call read after an update of another field.
C20_PriceRecomputed ==
    \A c \in UpdateCalls :
        (UqReturned(c) /\ StoredItem(uq[c].itemId) = uq[c].updatedItem)
        => LET stored == StoredItem(uq[c].itemId)[1]
               item == uq[c].item[1]
           IN  /\ stored[uq[c].field] = uq[c].value
               /\ IF uq[c].field \in {"quantity", "unitPrice", "widthInches", "heightInches"}
                    THEN stored.totalPrice = JsMul(stored.unitPrice, stored.quantity)
                  ELSE IF uq[c].field = "totalPrice"
                    THEN stored.unitPrice = JsDiv(stored.totalPrice, stored.quantity)
                  ELSE /\ stored.unitPrice = item.unitPrice
                       /\ stored.totalPrice = item.totalPrice

\* C24: when an updateQuoteItem call has returned with every store call
\* succeeding and no other call was made, the quote's totalAmount is the sum
\* of totalPrice over the quote's stored items; and a call in which
\* updateQuoteTotalAmount caught an error has returned, not raised.
C24_TotalRederived ==
    \A c \in UpdateCalls :
        /\ (UqReturned(c) /\ ~uq[c].totalFailed
              /\ \A d \in UpdateCalls \ {c} : uq[d].pc = "idle")
           => quotes[uq[c].item[1].quoteId].totalAmount
              = SumTotalPrice(getQuoteItems(uq[c].item[1].quoteId))
        /\ uq[c].totalFailed => UqReturned(c)

\* C24 witness: the quantity of the first item of 2 at 450 was set to 3 and
\* the total parsed from the document, 1400, became 1350 + 900
C24_Witness ==
    \E c \in UpdateCalls :
        /\ UqReturned(c) /\ ~uq[c].totalFailed
        /\ uq[c].quote[1].totalAmount = Num(1400)
        /\ uq[c].field = "quantity" /\ uq[c].value = Num(3)
        /\ uq[c].item[1].totalPrice = Num(900)
        /\ quotes[1].totalAmount = Num(2250)
        /\ SumTotalPrice(getQuoteItems(1)) = Num(2250)

\* C25: once all the calls in flight together have returned, with no store
\* error, every item has the value each call wrote to its field (calls that
\* wrote the same field of the same item aside) and the quote's totalAmount
\* is the sum of totalPrice over its stored items.
C25_NoLostUpdate ==
    (\A c \in DOMAIN uq : uq[c].pc = "returned" /\ ~uq[c].totalFailed)
    => /\ \A c \in DOMAIN uq :
             (\A d \in DOMAIN uq \ {c} :
                 ~(uq[d].itemId = uq[c].itemId /\ uq[d].field = uq[c].field))
             => StoredItem(uq[c].itemId)[1][uq[c].field] = uq[c].value
       /\ quotes[1].totalAmount = SumTotalPrice(getQuoteItems(1))

\* C20 witness: the total of the item of 2 at 450 was set to 500 and its
\* unit price became 250
C20_Witness ==
    \E c \in UpdateCalls :
        /\ UqReturned(c)
        /\ uq[c].field = "totalPrice"
        /\ uq[c].item[1].unitPrice = Num(450)
        /\ StoredItem(uq[c].itemId) = uq[c].updatedItem
        /\ StoredItem(uq[c].itemId)[1].totalPrice = Num(500)
        /\ StoredItem(uq[c].itemId)[1].unitPrice = Num(250)

(***************************************************************************)
(* parseQuoteText called on its own, on every text of at most MaxLines     *)
(* lines taken from QuoteLines, and on no text at all.  The last two lines *)
(* are a dimension that text extraction has broken in two.                 *)
(***************************************************************************)
QuoteLines ==
    { "Thank you",
      "Quote #AB-1234",
      "Date: 01/15/2024",
      "Subtotal: $400.00",
      "Total: $450.00",
      "Grand Total: $500.00",
      "Amount Due $1,250.50",
      "Casement 36x60 qty 2 $900.00",
      "0x60 $100.00",
      "24 X 36.5 Quantity: 0",
      "36x60 and 24x48 $300.00",
      "Bay window 72 x",
      "48 $1,200.00" }

RECURSIVE joinLines(_)
joinLines(lines) ==
    IF Len(lines) = 0 THEN ""
    ELSE IF Len(lines) = 1 THEN lines[1]
    ELSE lines[1] \o "\n" \o joinLines(Tail(lines))

ParseInputs == { joinLines(lines) : lines \in SeqsUpTo(QuoteLines, MaxLines) } \cup {UndefinedStr}

InitParse ==
    /\ quotes = <<>>
    /\ quoteItems = <<>>
    /\ comparisons = <<>>
    /\ comparisonItems = <<>>
    /\ nextId = 100
    /\ gc = [c \in Calls |-> GcIdle]
    /\ pq = [c \in ProcessCalls |-> PqIdle]
    /\ uq = [c \in UpdateCalls |-> UqIdle]
    /\ vq = VqIdle
    /\ us = UsIdle
    /\ helper \in { [NoHelperCall EXCEPT !.arg = text] : text \in ParseInputs }

\* parseQuoteText(text, competitorName) is called and settles
CallParseQuoteText(dateParses) ==
    /\ helper.fn = ""
    /\ helper' = [helper EXCEPT !.fn = "parseQuoteText",
                                !.ret = <<parseQuoteText(helper.arg, dateParses)>>,
                                !.raised = parseQuoteText(helper.arg, dateParses).raised]
    /\ UNCHANGED <<quotes, quoteItems, comparisons, comparisonItems, nextId, gc, pq, uq, vq, us>>

NextParse == \E dateParses \in BOOLEAN : CallParseQuoteText(dateParses)

SpecParse == InitParse /\ [][NextParse]_vars

(***************************************************************************)
(* Properties of processQuote.                                             *)
(***************************************************************************)
\* call c completes in this step
PqCompletes(c) == ~PqDone(c) /\ pq'[c].pc \in {"returned", "raised"}
PqOnExistingQuote(c) == pq[c].quoteId \in DOMAIN quotes
StatusAfter(c) == quotes'[pq[c].quoteId].extractionStatus

\* C10: a processQuote call on an existing quote sets the status to
\* 'processing' first, and when it completes the status is 'processed' if
\* it returned and 'error' if it raised.
C10_CompletedCallStatus ==
    [][\A c \in ProcessCalls :
          (PqCompletes(c) /\ PqOnExistingQuote(c))
          => /\ pq'[c].setProcessing
             /\ pq'[c].pc = "returned" => StatusAfter(c) = "processed"
             /\ pq'[c].pc = "raised" => StatusAfter(c) = "error"]_vars

\* C10 as amended: the call writes nothing before 'processing'; a call
\* that returns has written 'processing' and leaves 'processed'; a call
\* that raises leaves 'error' when the catch block's write succeeded and
\* otherwise leaves the store as it was.
C10_StatusWrites ==
    [][\A c \in ProcessCalls :
          PqOnExistingQuote(c)
          => /\ (pq[c].pc = "get" /\ pq'[c] # pq[c]) => quotes' = quotes
             /\ (pq[c].pc = "setProcessing" /\ pq'[c].pc = "extract")
                => StatusAfter(c) = "processing"
             /\ (PqCompletes(c) /\ pq'[c].pc = "returned")
                => (pq'[c].setProcessing /\ StatusAfter(c) = "processed")
             /\ (PqCompletes(c) /\ pq'[c].pc = "raised" /\ pq'[c].wroteError)
                => StatusAfter(c) = "error"
             /\ (PqCompletes(c) /\ pq'[c].pc = "raised" /\ ~pq'[c].wroteError)
                => quotes' = quotes]_vars

\* C10 witness: the only call made has raised after its 'processing' write,
\* its 'error' write failed, and the quote is still 'processing'
C10_Witness ==
    /\ pq[1].pc = "raised"
    /\ pq[1].setProcessing
    /\ ~pq[1].wroteError
    /\ \A c \in ProcessCalls : c # 1 => pq[c].pc = "idle"
    /\ quotes[1].extractionStatus = "processing"

\* the fields of a quote that parsing fills in
ParsedFields == {"quoteNumber", "quoteDate", "totalAmount", "itemsCount"}

\* call c completes in this step, extractText having failed in it
ExtractFailed(c) == PqCompletes(c) /\ pq[c].failed = "extractText"

\* what every call in which extractText failed does: it raises, it has
\* created no quote item and the parsed fields are as the call found them
ExtractFailureKeepsData(c) ==
    /\ pq'[c].pc = "raised"
    /\ pq'[c].createdItems = <<>>
    /\ Len(quoteItems') = pq[c].before[1].items
    /\ \A f \in ParsedFields : quotes'[pq[c].quoteId][f] = pq[c].before[1].quote[f]

\* C11: if extractText fails during processQuote, the status becomes
\* 'error', the call raises, no quote item is created and quoteNumber,
\* quoteDate, totalAmount and itemsCount are left unchanged.
C11_ExtractFailureMarksError ==
    [][\A c \in ProcessCalls :
          ExtractFailed(c) => (ExtractFailureKeepsData(c) /\ StatusAfter(c) = "error")]_vars

\* C11 as amended: the call raises, creates no quote item and leaves the
\* four fields unchanged; the status becomes 'error' when the catch block's
\* re-read and write succeeded and stays 'processing' otherwise.
C11_ExtractFailureBestEffort ==
    [][\A c \in ProcessCalls :
          ExtractFailed(c)
          => /\ ExtractFailureKeepsData(c)
             /\ StatusAfter(c) = IF pq'[c].wroteError THEN "error" ELSE "processing"]_vars

\* C11 witness: extractText failed in a call on a quote that an earlier call
\* had processed; the quote is in 'error' and still has its quote number,
\* its total and its item
C11_Witness ==
    \E c \in ProcessCalls :
        /\ pq[c].pc = "raised"
        /\ pq[c].failed = "extractText"
        /\ pq[c].wroteError
        /\ quotes[pq[c].quoteId].extractionStatus = "error"
        /\ quotes[pq[c].quoteId].quoteNumber = "AB-1234"
        /\ quotes[pq[c].quoteId].totalAmount = Num(450)
        /\ quotes[pq[c].quoteId].itemsCount = 1
        /\ Len(quoteItems) = 1

(***************************************************************************)
(* The mappers and extractOptions called on their own, on every string     *)
(* made of at most MaxWords of the pieces below, and on undefined.         *)
(***************************************************************************)
Pieces ==
    { "Double", "-", " ", "hung", "Casement", "bay", "vinyl", "WOOD", "triple", "1-pane",
      "low", "e", "argon", "Screens" }

RECURSIVE concat(_)
concat(pieces) == IF Len(pieces) = 0 THEN "" ELSE pieces[1] \o concat(Tail(pieces))

MapInputs == { concat(pieces) : pieces \in SeqsUpTo(Pieces, MaxWords) } \cup {UndefinedStr}

InitMap ==
    /\ quotes = <<>>
    /\ quoteItems = <<>>
    /\ comparisons = <<>>
    /\ comparisonItems = <<>>
    /\ nextId = 100
    /\ gc = [c \in Calls |-> GcIdle]
    /\ pq = [c \in ProcessCalls |-> PqIdle]
    /\ uq = [c \in UpdateCalls |-> UqIdle]
    /\ vq = VqIdle
    /\ us = UsIdle
    /\ helper \in { [NoHelperCall EXCEPT !.arg = str] : str \in MapInputs }

\* the call of a mapper on helper.arg: toLowerCase raises on undefined
CallMapper(fn, value) ==
    /\ helper.fn = ""
    /\ helper' = IF mapperRaises(helper.arg)
                   THEN [helper EXCEPT !.fn = fn, !.raised = TRUE]
                   ELSE [helper EXCEPT !.fn = fn, !.ret = <<value>>]
    /\ UNCHANGED <<quotes, quoteItems, comparisons, comparisonItems, nextId, gc, pq, uq, vq, us>>

CallMapWindowType == CallMapper("mapWindowType", mapWindowType(helper.arg))
CallMapMaterial == CallMapper("mapMaterial", mapMaterial(helper.arg))
CallMapGlassType == CallMapper("mapGlassType", mapGlassType(helper.arg))

\* extractOptions(description): RegExp.test converts its argument to a
\* string and does not raise
CallExtractOptions ==
    /\ helper.fn = ""
    /\ helper' = [helper EXCEPT !.fn = "extractOptions", !.ret = <<extractOptions(helper.arg)>>]
    /\ UNCHANGED <<quotes, quoteItems, comparisons, comparisonItems, nextId, gc, pq, uq, vq, us>>

NextMap ==
    \/ CallMapWindowType
    \/ CallMapMaterial
    \/ CallMapGlassType
    \/ CallExtractOptions

SpecMap == InitMap /\ [][NextMap]_vars

(***************************************************************************)
(* calculatePrice called on its own.  helper.request holds the request it  *)
(* posted, if any.                                                         *)
(***************************************************************************)
Lengths ==
    { Num(0), Num(11), Num(12), Rat(73, 2), Num(120), Num(121), NaN, Undefined, Infinity }

CalcInputs ==
    { [measurements |-> [width |-> w, height |-> h, quantity |-> q], options |-> o] :
        w \in Lengths, h \in Lengths, q \in {Num(2), Num(0), Undefined},
        o \in {[windowType |-> "casement", material |-> "wood", glassType |-> "triple-pane"],
               NoOptions} }

InitCalc ==
    /\ quotes = <<>>
    /\ quoteItems = <<>>
    /\ comparisons = <<>>
    /\ comparisonItems = <<>>
    /\ nextId = 100
    /\ gc = [c \in Calls |-> GcIdle]
    /\ pq = [c \in ProcessCalls |-> PqIdle]
    /\ uq = [c \in UpdateCalls |-> UqIdle]
    /\ vq = VqIdle
    /\ us = UsIdle
    /\ helper \in { [fn |-> "", arg |-> a, ret |-> <<>>, raised |-> FALSE, request |-> <<>>] :
                      a \in CalcInputs }

\* calculatePrice up to its await: with invalid measurements it returns the
\* error state at once, else it posts the request
CalculatePrice ==
    /\ helper.fn = ""
    /\ IF ~validateMeasurements(helper.arg.measurements)
         THEN helper' = [helper EXCEPT
                           !.fn = "calculatePrice",
                           !.ret = <<calculatePrice(helper.arg.measurements, helper.arg.options,
                                                    [kind |-> "throw", status |-> 0,
                                                     body |-> [success |-> FALSE]])>>]
         ELSE helper' = [helper EXCEPT
                           !.fn = "callGoogleSheetsAPI",
                           !.request = <<requestData(helper.arg.measurements, helper.arg.options)>>]
    /\ UNCHANGED <<quotes, quoteItems, comparisons, comparisonItems, nextId, gc, pq, uq, vq, us>>

\* the request settles and calculatePrice returns its state object
CalculatePriceSettles(net) ==
    /\ helper.fn = "callGoogleSheetsAPI"
    /\ helper' = [helper EXCEPT
                    !.fn = "calculatePrice",
                    !.ret = <<calculatePrice(helper.arg.measurements, helper.arg.options, net)>>]
    /\ UNCHANGED <<quotes, quoteItems, comparisons, comparisonItems, nextId, gc, pq, uq, vq, us>>

NextCalc ==
    \/ CalculatePrice
    \/ helper.fn = "callGoogleSheetsAPI" /\
          \E net \in NetOutcomes(helper.request[1]) \cup OtherNetOutcomes :
             CalculatePriceSettles(net)

SpecCalc == InitCalc /\ [][NextCalc]_vars

\* x is a number from 12 to 120
InRange(x) == IsNum(x) /\ x.n >= 12 * x.d /\ x.n <= 120 * x.d

\* C29: calculatePrice does not raise and returns a state with calculating
\* false and exactly one of results and error set; when the width or the
\* height is not a number from 12 to 120 the state has the error and no
\* request was posted.
C29_CalculatePriceTotal ==
    /\ helper.fn = "callGoogleSheetsAPI"
       => InRange(helper.arg.measurements.width) /\ InRange(helper.arg.measurements.height)
    /\ helper.fn = "calculatePrice"
       => /\ ~helper.raised
          /\ Len(helper.ret) = 1
          /\ helper.ret[1].calculating = FALSE
          /\ helper.ret[1].results.set # (helper.ret[1].error # "")
          /\ ~(InRange(helper.arg.measurements.width) /\ InRange(helper.arg.measurements.height))
             => /\ helper.request = <<>>
                /\ ~helper.ret[1].results.set
                /\ helper.ret[1].error # ""

\* C29 witness: the height 121 was refused without a request
C29_Witness ==
    /\ helper.fn = "calculatePrice"
    /\ helper.arg.measurements.width = Num(12)
    /\ helper.arg.measurements.height = Num(121)
    /\ helper.request = <<>>
    /\ helper.ret[1].error = "Invalid measurements. Please check width and height values."

(***************************************************************************)
(* Properties of the mappers and of extractOptions.                        *)
(***************************************************************************)
WindowTypes == {"double-hung", "casement", "awning", "slider", "picture", "bay", "bow", "garden"}
Materials == {"vinyl", "fiberglass", "wood", "aluminum", "composite"}
GlassTypes == {"single-pane", "double-pane", "triple-pane"}

WindowKeywords ==
    {"double-hung", "double hung", "casement", "awning", "slider", "sliding", "picture", "fixed",
     "bay", "bow", "garden"}
GlassKeywords == {"triple", "3-pane", "3 pane", "single", "1-pane", "1 pane"}

\* str holds one of the keywords, in whatever case
HasKeyword(str, keywords) == \E k \in keywords : includes(toLowerCase(str), k)

\* C16: on every string, mapWindowType, mapMaterial and mapGlassType do not
\* raise and return one of their enumerated values; a string with none of
\* the keywords gives double-hung, vinyl and double-pane.
C16_MappersTotal ==
    (helper.fn \in {"mapWindowType", "mapMaterial", "mapGlassType"} /\ helper.arg # UndefinedStr)
    => /\ ~helper.raised
       /\ Len(helper.ret) = 1
       /\ helper.fn = "mapWindowType"
          => /\ helper.ret[1] \in WindowTypes
             /\ ~HasKeyword(helper.arg, WindowKeywords) => helper.ret[1] = "double-hung"
       /\ helper.fn = "mapMaterial"
          => /\ helper.ret[1] \in Materials
             /\ ~HasKeyword(helper.arg, Materials) => helper.ret[1] = "vinyl"
       /\ helper.fn = "mapGlassType"
          => /\ helper.ret[1] \in GlassTypes
             /\ ~HasKeyword(helper.arg, GlassKeywords) => helper.ret[1] = "double-pane"

\* C16 witness: mapMaterial was called on a string without any material
\* keyword and returned the default
C16_Witness ==
    /\ helper.fn = "mapMaterial"
    /\ helper.arg = "Double-hung"
    /\ ~HasKeyword(helper.arg, Materials)
    /\ helper.ret = <<"vinyl">>

\* the keyword lists in their priority order, each with its value
WindowPriority ==
    << <<{"double-hung", "double hung"}, "double-hung">>, <<{"casement"}, "casement">>,
       <<{"awning"}, "awning">>, <<{"slider", "sliding"}, "slider">>,
       <<{"picture", "fixed"}, "picture">>, <<{"bay"}, "bay">>, <<{"bow"}, "bow">>,
       <<{"garden"}, "garden">> >>
MaterialPriority ==
    << <<{"vinyl"}, "vinyl">>, <<{"fiberglass"}, "fiberglass">>, <<{"wood"}, "wood">>,
       <<{"aluminum"}, "aluminum">>, <<{"composite"}, "composite">> >>
GlassPriority ==
    << <<{"triple", "3-pane", "3 pane"}, "triple-pane">>,
       <<{"single", "1-pane", "1 pane"}, "single-pane">> >>

\* value is the value of the earliest entry of the list with a keyword in str
FirstInPriority(str, priority, value) ==
    \E i \in DOMAIN priority :
        /\ HasKeyword(str, priority[i][1])
        /\ priority[i][2] = value
        /\ \A j \in 1..(i - 1) : ~HasKeyword(str, priority[j][1])

HasAnyKeyword(str, priority) == \E i \in DOMAIN priority : HasKeyword(str, priority[i][1])

\* C23: when the string holds a keyword, each mapper returns the value of
\* the earliest entry of its priority list that occurs in it, in whatever
\* case and wherever the keywords stand in the string.
C23_FirstKeywordWins ==
    (helper.fn \in {"mapWindowType", "mapMaterial", "mapGlassType"} /\ helper.arg # UndefinedStr)
    => LET priority == CASE helper.fn = "mapWindowType" -> WindowPriority
                         [] helper.fn = "mapMaterial" -> MaterialPriority
                         [] helper.fn = "mapGlassType" -> GlassPriority
       IN  HasAnyKeyword(helper.arg, priority)
           => /\ Len(helper.ret) = 1
              /\ FirstInPriority(helper.arg, priority, helper.ret[1])

\* C23 witness: bay stands before casement in the string and casement wins
C23_Witness ==
    /\ helper.fn = "mapWindowType"
    /\ helper.arg = "bayCasement"
    /\ HasKeyword(helper.arg, {"bay"})
    /\ helper.ret = <<"casement">>

LabelOrder ==
    <<"Low-E Glass", "Argon Gas", "ENERGY STAR", "Tempered Glass", "Grids", "Screens",
      "Tilt Feature">>

LabelKeywords ==
    [label \in {LabelOrder[i] : i \in DOMAIN LabelOrder} |->
        CASE label = "Low-E Glass" -> {"low-e", "low e", "lowe"}
          [] label = "Argon Gas" -> {"argon", "gas filled"}
          [] label = "ENERGY STAR" -> {"energy star", "energystar"}
          [] label = "Tempered Glass" -> {"tempered", "safety glass"}
          [] label = "Grids" -> {"grids", "grilles", "muntins"}
          [] label = "Screens" -> {"screens"}
          [] label = "Tilt Feature" -> {"tilt", "washable"}]

\* the positions of LabelOrder whose label a returned string names: the
\* string is the labels at these positions, in this order, joined by ", "
NamedBy(str) ==
    { P \in SUBSET DOMAIN LabelOrder :
        str = join(SelectSeq(LabelOrder, LAMBDA l : \E i \in P : LabelOrder[i] = l), ", ") }

\* times the keyword occurs in str, whatever the case
RECURSIVE Occurrences(_, _)
Occurrences(str, k) ==
    IF Len(str) < Len(k) THEN 0
    ELSE (IF toLowerCase(SubSeq(str, 1, Len(k))) = k THEN 1 ELSE 0)
         + Occurrences(SubSeq(str, 2, Len(str)), k)

\* C17: the string extractOptions returns names a set of labels, each once
\* and in the fixed order, and a label is named exactly when one of its
\* keywords occurs in the description.
C17_LabelsInFixedOrder ==
    helper.fn = "extractOptions"
    => /\ ~helper.raised
       /\ Len(helper.ret) = 1
       /\ \E P \in NamedBy(helper.ret[1]) :
             \A i \in DOMAIN LabelOrder :
                i \in P <=> HasKeyword(helper.arg, LabelKeywords[LabelOrder[i]])

\* C17 witness: the keywords came in the reverse of the fixed order, one of
\* them twice
C17_Witness ==
    /\ helper.fn = "extractOptions"
    /\ helper.arg = "Screensargonargon"
    /\ Occurrences(helper.arg, "argon") = 2
    /\ helper.ret = <<"Argon Gas, Screens">>

(***************************************************************************)
(* Properties of parseQuoteText.                                           *)
(***************************************************************************)
\* parseQuoteText has been called on helper.arg and has settled
Parsed == helper.fn = "parseQuoteText"
ParseResult == helper.ret[1]

\* the text holds no match of a quote number, date, total or dimension
\* pattern
NoPattern(text) ==
    /\ Len(firstMatch(text, quoteNumberPatterns)) = 0
    /\ Len(firstMatch(text, datePatterns)) = 0
    /\ Len(firstMatch(text, totalPatterns)) = 0
    /\ Len(matchAll(text, dimensionPattern)) = 0

\* C12: parseQuoteText never raises; on a text without any of the patterns,
\* and on an input on which parsing fails internally, it yields an empty
\* quote number, no date, total 0 and no items.
C12_ParseNeverRaises ==
    Parsed =>
      /\ ~helper.raised
      /\ (parseThrows(helper.arg) \/ NoPattern(helper.arg))
         => /\ ParseResult.quoteNumber = ""
            /\ ParseResult.quoteDate = "null"
            /\ ParseResult.totalAmount = Num(0)
            /\ ParseResult.items = <<>>

\* C12 witness: parseQuoteText was called with no text at all, its try block
\* raised, and the call returned the empty result
C12_Witness ==
    /\ Parsed
    /\ helper.arg = UndefinedStr
    /\ parseThrows(helper.arg)
    /\ ~helper.raised
    /\ ParseResult.items = <<>>

RECURSIVE SplitLines(_)
\* the lines of a text, without their line ends
SplitLines(text) ==
    LET n == indexOf(text, "\n", 0)
    IN  IF n < 0 THEN <<text>>
        ELSE <<substring(text, 0, n)>> \o SplitLines(slice(text, n + 2))

\* the line of the text that holds position index, counted from 0
EnclosingLine(text, index) ==
    SplitLines(text)[Len(SplitLines(substring(text, 0, index)))]

\* the amount of the first price token of a line, 0 when it has none
PriceOn(line) ==
    IF Len(match(line, pricePattern)) = 0 THEN Num(0)
    ELSE parseFloat(removeAll(match(line, pricePattern)[1].groups[1], ","))

\* the dimension matches of a text whose width and height are not 0
PositiveDimensions(text) ==
    SelectSeq(matchAll(text, dimensionPattern),
              LAMBDA m : parseFloat(m.groups[1]) # Num(0) /\ parseFloat(m.groups[2]) # Num(0))

LineNumber(text, index) == Len(SplitLines(substring(text, 0, index)))

\* C28: the items parseQuoteText returns come from dimension matches on
\* different lines of the text, so that no line, and no price token, gives
\* more than one item.
C28_OneItemPerLine ==
    (Parsed /\ ~parseThrows(helper.arg)) =>
      LET dims == PositiveDimensions(helper.arg)
      IN  /\ Len(ParseResult.items) = Len(dims)
          /\ \A i, j \in DOMAIN dims :
                i < j => LineNumber(helper.arg, dims[i].index) # LineNumber(helper.arg, dims[j].index)

RECURSIVE execLabel(_, _, _)
\* the leftmost match of re in s, from lastIndex on, that starts a word:
\* the character before it, if any, is not a letter, a digit or "_"
execLabel(re, s, lastIndex) ==
    LET m == exec(re, s, lastIndex)
    IN  IF Len(m) = 0 THEN <<>>
        ELSE IF m[1].index = 0 \/ charAt(s, m[1].index) \notin WordCh THEN m
        ELSE execLabel(re, s, m[1].index + 1)

RECURSIVE LabelledAmount(_, _)
\* the amount after the first label of the text, the labels being taken in
\* the order of their patterns; 0 when no label is followed by an amount
LabelledAmount(text, res) ==
    IF Len(res) = 0 THEN Num(0)
    ELSE IF Len(execLabel(res[1], text, 0)) > 0
      THEN parseFloat(removeAll(execLabel(res[1], text, 0)[1].groups[1], ","))
    ELSE LabelledAmount(text, Tail(res))

\* C15: the total amount returned by parseQuoteText is the amount after the
\* first of the labels Total, Grand Total, Amount Due that the text has, and
\* 0 when it has none; the amount after another label, such as Subtotal, is
\* never returned.
C15_TotalFollowsLabel ==
    (Parsed /\ ~parseThrows(helper.arg))
    => ParseResult.totalAmount = LabelledAmount(helper.arg, totalPatterns)

(***************************************************************************)
(* Properties of the items processQuote parses and persists.               *)
(***************************************************************************)
\* the items the processQuote calls have parsed so far
\* the calls on the quote that got a text all parsed the same data out of it
SameDocument(q) ==
    \A c, d \in ProcessCalls :
        (pq[c].quoteId = q /\ pq[d].quoteId = q /\ pq[c].parsedData # <<>> /\ pq[d].parsedData # <<>>)
        => pq[c].parsedData = pq[d].parsedData

\* C27: whenever the quote is 'processed', its document having given the
\* same text at every call, its itemsCount is the number of quote items
\* stored for it, and no two stored items of the quote come from the same
\* parsed line item of the document.
C27_ItemsCountMatchesStore ==
    \A q \in DOMAIN quotes :
        (quotes[q].extractionStatus = "processed" /\ SameDocument(q))
        => /\ quotes[q].itemsCount = Len(getQuoteItems(q))
           /\ \A c, d \in ProcessCalls :
                 (c # d /\ pq[c].quoteId = q /\ pq[d].quoteId = q)
                 => pq[c].createdItems = <<>> \/ pq[d].createdItems = <<>>

ParsedItems == UNION { { l.parsedData[1].items[i] : i \in DOMAIN l.parsedData[1].items } :
                       l \in { pq[c] : c \in { d \in ProcessCalls : pq[d].parsedData # <<>> } } }

\* C14: every item returned by parseQuoteText, and every quote item that
\* processQuote persists from it, has a quantity of at least 1.
C14_QuantityAtLeastOne ==
    /\ \A item \in ParsedItems : ~JsLt(item.quantity, Num(1)) /\ IsNum(item.quantity)
    /\ \A i \in DOMAIN quoteItems : ~JsLt(quoteItems[i].quantity, Num(1)) /\ IsNum(quoteItems[i].quantity)

====
